---- MODULE Spec2Model ----
(***************************************************************************)
(* Model of nestjs-connectrpc's streaming bridge and call dispatch:        *)
(*   - observableToAsyncGenerator (utils/async.ts), the push-to-pull       *)
(*     bridge, as the async generator it is: the body between suspension   *)
(*     points runs atomically, requests made while it runs are queued;     *)
(*   - the NO_STREAMING / PT_STREAMING adapters of createServiceHandlers   *)
(*     (router/router.ts): await handler(), transformToObservable,         *)
(*     lastValueFrom.                                                      *)
(***************************************************************************)
EXTENDS Integers, Sequences, FiniteSets, TLC

\* ---------------------------------------------------------------- bounds
MaxEmit == 3        \* values one push source emits
MaxReq == 5         \* next()/return() calls one consumer makes
MaxUEmit == 3       \* values a Unary/ClientStream handler's stream emits
MaxPulls == 2       \* requests a ClientStream handler pulls
MaxEntries == 2     \* entries of the strategy's messageHandlers map
MaxStreamCalls == 2 \* calls made, one after the other, to a streaming adapter
MaxStreamReq == 3   \* next()/return() calls on one streaming adapter generator
MaxStreamEmit == 2  \* values a streaming handler's result emits
MaxSyncBurst == 1   \* of them, values emitted inside subscribe()
MaxPairReq == 3     \* next()/return() calls on each of two interleaved bridges
MaxPairEmit == 1    \* values the source of each of them emits
MaxLate == 1        \* events a source pushes after its terminal event
MaxSubs == 2        \* subscriptions made on the stream the normalizer returns
MaxAdds == 3        \* addHandler calls whose order is recorded
MaxListens == 2     \* listen() calls made on one strategy
MaxCloses == 2      \* close() calls made on one strategy
MaxNormEmit == 2    \* values a passed-through stream pushes, all subscribers together

\* ---------------------------------------------------------------- values
Undefined == "undefined"
JsValues == {"v1", "v2", Undefined}
NoValue == "none"

\* JavaScript values used as error causes.  `by` tells an Error object the
\* producer created from one the bridge created (object identity).
Null == [tag |-> "null", message |-> "", by |-> "none"]
ErrorObject == [tag |-> "Error", message |-> "boom", by |-> "producer"]
StringCause == [tag |-> "string", message |-> "boom", by |-> "producer"]
UndefinedCause == [tag |-> "undefined", message |-> "", by |-> "none"]
Causes == {ErrorObject, StringCause, UndefinedCause, Null}

\* String(error)
JsString(c) ==
  CASE c.tag = "string" -> c.message
    [] c.tag = "undefined" -> "undefined"
    [] c.tag = "null" -> "null"
    [] OTHER -> "Error: " \o c.message

\* new Error(message)
NewError(m) == [tag |-> "Error", message |-> m, by |-> "bridge"]

BoundedSeq(S, n) == UNION {[1..k -> S] : k \in 0..n}

\* ---------------------------------------------------------------- state
VARIABLES
  \* observableToAsyncGenerator
  pc,           \* generator state: suspendedStart, yielding, suspendedYield,
                \* awaiting, returning, completed
  queue,        \* const queue: T[]
  error,        \* let error: unknown
  completed,    \* let completed
  resolve,      \* let resolve: non-null (TRUE) or null (FALSE)
  woken,        \* the promise awaited at line 79 has been resolved
  item,         \* const item, the operand of the running yield
  requests,     \* the generator's queue of pending next()/return() calls
  settled,      \* what each call settled with, in order
  src,          \* the source's subscriber: idle, active, stopped, cancelled
  emitted,      \* every value the source pushed, in order
  cause,        \* the value the source passed to error(), if it did
  term,         \* how the source ended: none, complete, error
  subscribeCalls,
  unsubscribeCalls,
  calls,        \* next()/return() calls made so far
  burst,        \* two values were pushed within one suspension of the loop
  \* NO_STREAMING / PT_STREAMING adapter
  uPc,          \* adapter position: idle, awaitResult, subscribed, settled
  uKind,        \* streamingType of the entry: no_stream or pt_stream
  uShape,       \* what handler(...) returned: value, promise, observable
  uResult,      \* the immediate value, when uShape = "value"
  uHasValue,    \* lastValueFrom: _hasValue
  uValue,       \* lastValueFrom: _value
  uOutcome,     \* what the adapter's promise settled with
  uSettles,     \* times the adapter's promise was resolved or rejected
  uEmitted,     \* every value the result stream emitted, in order
  uTerm,        \* how the result stream ended: none, complete, error
  uCause,       \* the value the result stream passed to error()
  uHandlerCalls,
  uArgs,        \* the (request, context) pair the adapter was called with
  uHandlerArgs, \* the (request, context) pair the handler was called with
  uAwaited,     \* what `await result` produced: value, observable, rejected
  uRejection,   \* the cause the handler's promise rejected with
  uReqPulled,   \* next() calls made on the request sequence so far
  \* handler registry, createServiceHandlers, addServicesToRouter
  messageHandlers,  \* the strategy's Map, in insertion order: [key, handler]
  metadataStore,    \* store.ts: service name -> service descriptor
  rPhase,           \* router function: registering, built, failed
  serviceHandlers,  \* the table: [service, methods] in insertion order
  regError,         \* message of the error createServiceHandlers threw
  routerServices,   \* router.service(desc, impl) calls, in order
  added,            \* the addHandler calls made so far, in order
  flagged,          \* callbacks carrying isEventHandler: true
  \* ConnectRpcServerStrategy.listen / close, ConnectRpcServer
  protocol,         \* options.protocol
  server,           \* the strategy's #server: 0 for null, or which server
  instances,        \* the ConnectRpcServer objects created, in order:
                    \* #instance non-null, and the state of its listener
  listens,          \* the listen() calls: where each is, what its callback got
  closes,           \* the close() calls: where each is
  lastOp,           \* the call made last on the strategy
  \* RX_STREAMING / DUPLEX_STREAMING adapter (an async generator)
  sPc,          \* idle, suspendedStart, awaitResult, awaitInner, relay,
                \* suspendedYield, returning, completed
  sKind,        \* rx_stream or duplex_stream
  sHandler,     \* the user handler: free (any result) or echo (bidiStream)
  sArgs,        \* the (request, context) pair the adapter was called with
  sHandlerArgs, \* the (request, context) pair the handler was called with
  sHandlerCalls,
  sShape,       \* what handler(...) returned
  sAwaited,     \* what `await result` produced
  sResult,      \* resultOrDeferred, when it is a plain value
  sRejection,   \* the cause the handler's promise rejected with
  sInner,       \* what toAsyncGenerator delegates to: bridge or asyncgen
  sUpResult,    \* the result toAsyncGenerator hands up to the adapter
  sSeen,        \* results of the bridge toAsyncGenerator has taken so far
  sRequests,    \* the adapter generator's queue of next()/return() calls
  sSettled,     \* what each of the caller's calls settled with, in order
  sCalls,       \* next()/return() calls the caller made so far
  sCallNo,      \* how many times the adapter was called
  sPrior,       \* an earlier call failed with the unsupported-input error
  sReqSeq,      \* the items of the call's request sequence
  sReqIdx,      \* how many of them the echo handler has consumed
  sEchoDone,    \* the echo handler called subscriber.complete()
  gEmitted,     \* values the handler's own async generator yielded
  \* two bridges running interleaved: call "A" is the bridge above
  peer,         \* the locals and generator state of call "B"'s bridge
  pushed,       \* per call, the events its own source passed to its observer
  late,         \* events the producer pushed after the subscriber was closed
  \* transformToObservable
  nPc,          \* idle, called
  nInput,       \* resultOrDeferred: its shape, and its value or identity
  nOutput,      \* the Observable returned: its identity and what it does
  nPromise,     \* the input promise: pending, fulfilled or rejected
  nSubs,        \* the subscribers of the returned Observable, in order
  nInputSubs,   \* subscribe() calls the normalizer itself made on the input
  nPushed       \* per subscriber, what the input stream's producer pushed

bvars == <<pc, queue, error, completed, resolve, woken, item, requests,
           settled, src, emitted, cause, term, subscribeCalls,
           unsubscribeCalls, calls, burst>>
uvars == <<uPc, uKind, uShape, uResult, uHasValue, uValue, uOutcome, uSettles,
           uEmitted, uTerm, uCause, uHandlerCalls, uArgs, uHandlerArgs,
           uAwaited, uRejection, uReqPulled>>
lvars == <<protocol, server, instances, listens, closes, lastOp>>
rvars == <<messageHandlers, metadataStore, rPhase, serviceHandlers, regError,
           routerServices, added, flagged, lvars>>
svars == <<sPc, sKind, sHandler, sArgs, sHandlerArgs, sHandlerCalls, sShape,
           sAwaited, sResult, sRejection, sInner, sUpResult, sSeen, sRequests,
           sSettled, sCalls, sCallNo, sPrior, sReqSeq, sReqIdx, sEchoDone,
           gEmitted>>
pvars == <<peer, pushed, late>>
nvars == <<nPc, nInput, nOutput, nPromise, nSubs, nInputSubs, nPushed>>
vars == <<bvars, uvars, rvars, svars, pvars, nvars>>

\* The bridge's state as one record, so that the generator body can be
\* written as operators that are chained within one step.
B == [pc |-> pc, queue |-> queue, error |-> error, completed |-> completed,
      resolve |-> resolve, woken |-> woken, item |-> item,
      requests |-> requests, settled |-> settled, src |-> src,
      emitted |-> emitted, cause |-> cause, term |-> term,
      subscribeCalls |-> subscribeCalls,
      unsubscribeCalls |-> unsubscribeCalls, calls |-> calls,
      burst |-> burst]

SetB(s) ==
  /\ pc' = s.pc /\ queue' = s.queue /\ error' = s.error
  /\ completed' = s.completed /\ resolve' = s.resolve /\ woken' = s.woken
  /\ item' = s.item /\ requests' = s.requests /\ settled' = s.settled
  /\ src' = s.src /\ emitted' = s.emitted /\ cause' = s.cause
  /\ term' = s.term /\ subscribeCalls' = s.subscribeCalls
  /\ unsubscribeCalls' = s.unsubscribeCalls /\ calls' = s.calls
  /\ burst' = s.burst

\* ------------------------------------------------- the observer callbacks
\* next: (value) => { queue.push(value); resolve?.(); }
OnNext(s, v) ==
  [s EXCEPT !.queue = Append(@, v), !.emitted = Append(@, v),
            !.woken = (@ \/ s.resolve),
            !.burst = (@ \/ (s.pc = "awaiting" /\ s.queue # <<>>))]

\* error: (err) => { error = err; resolve?.(); }
OnError(s, c) ==
  [s EXCEPT !.error = c, !.cause = c, !.term = "error", !.src = "stopped",
            !.woken = (@ \/ s.resolve)]

\* complete: () => { completed = true; resolve?.(); }
OnComplete(s) ==
  [s EXCEPT !.completed = TRUE, !.term = "complete", !.src = "stopped",
            !.woken = (@ \/ s.resolve)]

\* rxjs Subscriber.next / error / complete: a subscriber that received its
\* terminal event, or was unsubscribed, passes nothing on to the observer
SubscriberNextUnguarded(s, v) == OnNext(s, v)
SubscriberNext(s, v) == IF s.src = "active" THEN OnNext(s, v) ELSE s
SubscriberError(s, c) == IF s.src = "active" THEN OnError(s, c) ELSE s
SubscriberComplete(s) == IF s.src = "active" THEN OnComplete(s) ELSE s

RECURSIVE OnNextAll(_, _)
OnNextAll(s, vs) ==
  IF vs = <<>> THEN s ELSE OnNextAll(OnNext(s, Head(vs)), Tail(vs))

\* What the source does synchronously inside subscribe(): some values, then
\* possibly its terminal event.
SyncEnds == {[end |-> "none", c |-> Null], [end |-> "complete", c |-> Null]}
            \cup {[end |-> "error", c |-> c] : c \in Causes}

\* const subscription = obs$.subscribe({...})
Subscribe(s, vs, e) ==
  LET s1 == [s EXCEPT !.subscribeCalls = @ + 1, !.src = "active"]
      s2 == OnNextAll(s1, vs)
  IN CASE e.end = "none" -> s2
       [] e.end = "complete" -> OnComplete(s2)
       [] OTHER -> OnError(s2, e.c)

\* --------------------------------------------------- the generator's body
Outcome(req, kind, v, e) == [req |-> req, kind |-> kind, value |-> v, err |-> e]

\* the head request of the generator's queue settles
Settle(s, kind, v, e) ==
  [s EXCEPT !.settled = Append(@, Outcome(Head(s.requests), kind, v, e)),
            !.requests = Tail(@)]

\* a completed generator answers every queued request with { done: true }
RECURSIVE DrainCompleted(_)
DrainCompleted(s) ==
  IF s.requests = <<>> THEN s
  ELSE DrainCompleted(Settle(s, "done", NoValue, Null))

\* finally { subscription.unsubscribe(); }
FinallySkipsUnsubscribe(s) == [s EXCEPT !.pc = "completed"]
Finally(s) ==
  [s EXCEPT !.unsubscribeCalls = @ + 1,
            !.src = IF @ = "active" THEN "cancelled" ELSE @,
            !.pc = "completed"]

\* gen.return() taking effect: the finally block runs when the generator is
\* inside the try block; a generator that never started just completes
ReturnCompletionAlwaysFinally(s) == Finally(s)
ReturnCompletion(s) ==
  IF s.subscribeCalls > 0 THEN Finally(s) ELSE [s EXCEPT !.pc = "completed"]

\* throw error instanceof Error ? error : new Error(String(error))
ThrownAlwaysWrapped(e) == NewError(JsString(e))
Thrown(e) == IF e.tag = "Error" THEN e ELSE NewError(JsString(e))

\* queue.shift()
ShiftPops(q) == [item |-> q[Len(q)], rest |-> SubSeq(q, 1, Len(q) - 1)]
Shift(q) == [item |-> Head(q), rest |-> Tail(q)]

\* while (queue.length > 0) { const item = queue.shift();
\*   if (item !== undefined) { yield item; } }
\* The items the inner loop shifts and does not yield.
RECURSIVE SkipUnyielded(_)
SkipUnyielded(q) ==
  IF q = <<>> THEN q
  ELSE IF Shift(q).item # Undefined THEN q
  ELSE SkipUnyielded(Shift(q).rest)

\* if (error !== null)
ErrorCheckAgainstUndefined(e) == e.tag # "undefined"
ErrorCheck(e) == e.tag # "null"

\* while (true) { ... } from the top of the inner loop to the next
\* suspension point (yield, await) or to the generator's end.
RunLoop(s) ==
  LET q == SkipUnyielded(s.queue) IN
  IF q # <<>>
  THEN [s EXCEPT !.queue = Shift(q).rest, !.item = Shift(q).item,
                 !.pc = "yielding"]
  ELSE IF ErrorCheck(s.error)
  THEN DrainCompleted(Settle(Finally([s EXCEPT !.queue = q]),
                             "error", NoValue, Thrown(s.error)))
  ELSE IF s.completed
  THEN DrainCompleted(Settle(Finally([s EXCEPT !.queue = q]),
                             "done", NoValue, Null))
  ELSE [s EXCEPT !.queue = q, !.resolve = TRUE, !.woken = FALSE,
                 !.pc = "awaiting"]

\* The generator is suspended at a yield (or at its start) and takes the
\* head of its request queue, if there is one.
ResumeNext(s) ==
  IF s.requests = <<>> THEN s
  ELSE IF Head(s.requests) = "next" THEN RunLoop(s)
  ELSE [s EXCEPT !.pc = "returning"]

\* ------------------------------- NO_STREAMING / PT_STREAMING adapters
U == [pc |-> uPc, hasValue |-> uHasValue, value |-> uValue,
      outcome |-> uOutcome, settles |-> uSettles, emitted |-> uEmitted,
      term |-> uTerm, cause |-> uCause]

SetU(s) ==
  /\ uPc' = s.pc /\ uHasValue' = s.hasValue /\ uValue' = s.value
  /\ uOutcome' = s.outcome /\ uSettles' = s.settles
  /\ uEmitted' = s.emitted /\ uTerm' = s.term /\ uCause' = s.cause

\* rxjs EmptyError, what lastValueFrom rejects with on an empty stream
EmptyError == [tag |-> "Error", message |-> "no elements in sequence",
               by |-> "rxjs"]

\* the promise returned by the adapter settles
UResolve(s, v) ==
  [s EXCEPT !.outcome = Outcome("call", "value", v, Null),
            !.settles = @ + 1, !.pc = "settled"]
UReject(s, e) ==
  [s EXCEPT !.outcome = Outcome("call", "error", NoValue, e),
            !.settles = @ + 1, !.pc = "settled"]

\* lastValueFrom's subscriber: next
LastValueNextResolves(s, v) ==
  UResolve([s EXCEPT !.value = v, !.hasValue = TRUE,
                     !.emitted = Append(@, v)], v)
LastValueKeepsFirst(s, v) ==
  [s EXCEPT !.value = IF s.hasValue THEN @ ELSE v, !.hasValue = TRUE,
            !.emitted = Append(@, v)]
LastValueNext(s, v) ==
  [s EXCEPT !.value = v, !.hasValue = TRUE, !.emitted = Append(@, v)]

\* lastValueFrom's subscriber: complete
LastValueCompleteResolvesUndefined(s) ==
  UResolve([s EXCEPT !.term = "complete"],
           IF s.hasValue THEN s.value ELSE Undefined)
LastValueComplete(s) ==
  IF s.hasValue THEN UResolve([s EXCEPT !.term = "complete"], s.value)
  ELSE UReject([s EXCEPT !.term = "complete"], EmptyError)

\* lastValueFrom's subscriber: error
LastValueErrorKeepsEmission(s, c) ==
  IF s.hasValue THEN UResolve([s EXCEPT !.term = "error", !.cause = c], s.value)
  ELSE UReject([s EXCEPT !.term = "error", !.cause = c], c)
LastValueError(s, c) ==
  UReject([s EXCEPT !.term = "error", !.cause = c], c)

\* const resultOrDeferred = await result, when result is a rejected promise:
\* the async adapter function rejects with what the await throws
AwaitThrowsWrapped(s, c) ==
  UReject(s, IF c.tag = "Error" THEN c ELSE NewError(JsString(c)))
AwaitThrows(s, c) == UReject(s, c)

RECURSIVE LastValueNextAll(_, _)
LastValueNextAll(s, vs) ==
  IF vs = <<>> THEN s
  ELSE LastValueNextAll(LastValueNext(s, Head(vs)), Tail(vs))

\* lastValueFrom(obs$) for a stream that, inside subscribe(), emits vs and
\* then ends as e says
LastValueFrom(s, vs, e) ==
  LET s1 == LastValueNextAll([s EXCEPT !.pc = "subscribed"], vs)
  IN CASE e.end = "none" -> s1
       [] e.end = "complete" -> LastValueComplete(s1)
       [] OTHER -> LastValueError(s1, e.c)

\* transformToObservable(value): new Observable((subscriber) => {
\*   subscriber.next(resultOrDeferred); subscriber.complete(); })
\* as the events the stream delivers inside subscribe()
TransformValueOnlyCompletes(v) ==
  [values |-> <<>>, e |-> [end |-> "complete", c |-> Null]]
TransformValue(v) == [values |-> <<v>>, e |-> [end |-> "complete", c |-> Null]]

\* The request the transport hands to the adapter: a message (no_stream) or
\* the pull sequence of the call's requests (pt_stream); `pulled` is the
\* number of items already taken from the sequence.
Requests == {[id |-> i, pulled |-> 0] : i \in {"reqA", "reqB"}}
Contexts == {"ctxA", "ctxB"}
NoArgs == [request |-> [id |-> NoValue, pulled |-> 0], context |-> NoValue]

\* handler(request, context) / handler(requests, context): the arguments
\* the user handler receives
HandlerArgsPreConsumed(request, context) ==
  [request |-> [request EXCEPT !.pulled = MaxPulls], context |-> context]
HandlerArgs(request, context) == [request |-> request, context |-> context]

\* What handler(...) returns, and what a returned promise settles to.
HandlerResults ==
  {[shape |-> "value", v |-> v] : v \in JsValues}
  \cup {[shape |-> "promise", v |-> NoValue],
        [shape |-> "observable", v |-> NoValue]}
Settlements ==
  {[to |-> "value", v |-> v, c |-> Null] : v \in JsValues}
  \cup {[to |-> "observable", v |-> NoValue, c |-> Null]}
  \cup {[to |-> "rejected", v |-> NoValue, c |-> c] : c \in Causes}

\* ------------------------- RX_STREAMING / DUPLEX_STREAMING adapters
\* gen.next() / gen.return(): the call joins the generator's request queue
Enqueue(s, r) == [s EXCEPT !.requests = Append(@, r), !.calls = @ + 1]

S == [pc |-> sPc, kind |-> sKind, handler |-> sHandler, args |-> sArgs,
      handlerArgs |-> sHandlerArgs, handlerCalls |-> sHandlerCalls,
      shape |-> sShape, awaited |-> sAwaited, result |-> sResult,
      rejection |-> sRejection, inner |-> sInner, upResult |-> sUpResult,
      seen |-> sSeen, requests |-> sRequests, settled |-> sSettled,
      calls |-> sCalls, callNo |-> sCallNo, prior |-> sPrior,
      reqSeq |-> sReqSeq, reqIdx |-> sReqIdx, echoDone |-> sEchoDone,
      gEmitted |-> gEmitted]

SetS(s) ==
  /\ sPc' = s.pc /\ sKind' = s.kind /\ sHandler' = s.handler
  /\ sArgs' = s.args /\ sHandlerArgs' = s.handlerArgs
  /\ sHandlerCalls' = s.handlerCalls /\ sShape' = s.shape
  /\ sAwaited' = s.awaited /\ sResult' = s.result
  /\ sRejection' = s.rejection /\ sInner' = s.inner
  /\ sUpResult' = s.upResult /\ sSeen' = s.seen /\ sRequests' = s.requests
  /\ sSettled' = s.settled /\ sCalls' = s.calls /\ sCallNo' = s.callNo
  /\ sPrior' = s.prior /\ sReqSeq' = s.reqSeq /\ sReqIdx' = s.reqIdx
  /\ sEchoDone' = s.echoDone /\ gEmitted' = s.gEmitted

\* the adapter generator and the bridge below it, as one state
X == [b |-> B, s |-> S]
SetX(x) == SetB(x.b) /\ SetS(x.s)

NoOutcome == Outcome("none", "none", NoValue, Null)

\* a fresh bridge: the locals of a new observableToAsyncGenerator call
BridgeInitial ==
  [pc |-> "suspendedStart", queue |-> <<>>, error |-> Null,
   completed |-> FALSE, resolve |-> FALSE, woken |-> FALSE, item |-> NoValue,
   requests |-> <<>>, settled |-> <<>>, src |-> "idle", emitted |-> <<>>,
   cause |-> Null, term |-> "none", subscribeCalls |-> 0,
   unsubscribeCalls |-> 0, calls |-> 0, burst |-> FALSE]

\* two calls, each with a bridge of its own
CallIds == {"A", "B"}

\* a streaming adapter that has not been called
StreamInitial ==
  [pc |-> "idle", kind |-> "none", handler |-> "none", args |-> NoArgs,
   handlerArgs |-> NoArgs, handlerCalls |-> 0, shape |-> "none",
   awaited |-> "none", result |-> NoValue, rejection |-> Null,
   inner |-> "none", upResult |-> NoOutcome, seen |-> 0, requests |-> <<>>,
   settled |-> <<>>, calls |-> 0, callNo |-> 0, prior |-> FALSE,
   reqSeq |-> <<>>, reqIdx |-> 0, echoDone |-> FALSE, gEmitted |-> <<>>]

\* typeof input
TypeOf(v) == IF v = Undefined THEN "undefined" ELSE "object"

\* the Error toAsyncGenerator throws for an input that is neither an
\* Observable nor an AsyncGenerator
UnsupportedInput(v) ==
  NewError("Unsupported input type. Expected Observable or AsyncGenerator, got "
           \o TypeOf(v))

\* isObservable(input) / isAsyncGenerator(input), on what the await produced
IsObservable(awaited) == awaited = "observable"
IsAsyncGenerator(awaited) == awaited = "asyncgen"

\* toAsyncGenerator(input), first step of its body: what it delegates to, or
\* "throw"
ToAsyncGeneratorNormalizes(awaited) ==
  IF IsObservable(awaited) \/ awaited = "value" THEN "bridge"
  ELSE IF IsAsyncGenerator(awaited) THEN "asyncgen"
  ELSE "throw"
ToAsyncGenerator(awaited) ==
  IF IsObservable(awaited) THEN "bridge"
  ELSE IF IsAsyncGenerator(awaited) THEN "asyncgen"
  ELSE "throw"

\* the values a streaming handler's result carries
StreamValues == {"v1", Undefined}

\* what a streaming handler returns, and what a returned promise settles to
StreamResults == {"value", "promise", "observable", "asyncgen"}
StreamSettlements ==
  {[to |-> "value", v |-> v, c |-> Null] : v \in StreamValues}
  \cup {[to |-> "observable", v |-> NoValue, c |-> Null],
        [to |-> "asyncgen", v |-> NoValue, c |-> Null]}
  \cup {[to |-> "rejected", v |-> NoValue, c |-> c] : c \in Causes}

\* the (request, context) pairs a streaming adapter is called with
StreamArgs ==
  {[request |-> [id |-> "reqA", pulled |-> 0], context |-> "ctxA"],
   [request |-> [id |-> "reqB", pulled |-> 0], context |-> "ctxB"]}

\* the request messages of a call, and the echo handler's response to one
RequestItems == {"ping", "pong"}
Echo(r) == "Echo: " \o r

\* calling the adapter (an async generator function) creates the generator
\* object, suspended at its start: nothing of the body has run
GeneratorCreatedEager(s) ==
  [s EXCEPT !.pc = "suspendedStart", !.handlerCalls = @ + 1,
            !.handlerArgs = s.args]
GeneratorCreated(s) == [s EXCEPT !.pc = "suspendedStart"]

\* the adapter generator ends: its pending call settles, queued calls get
\* { done: true }
AdapterEndsStaysOpen(s, kind, v, e) ==
  Settle([s EXCEPT !.pc = "suspendedYield"], kind, v, e)
AdapterEnds(s, kind, v, e) ==
  DrainCompleted(Settle([s EXCEPT !.pc = "completed"], kind, v, e))

\* yield* with the adapter suspended at the yield: the call r is passed down
\* to toAsyncGenerator and by it to the generator it delegates to
PassDown(x, r) ==
  [b |-> IF x.s.inner # "bridge" THEN x.b
         ELSE IF r = "next" THEN RunLoop(Enqueue(x.b, "next"))
         ELSE [Enqueue(x.b, "return") EXCEPT !.pc = "returning"],
   s |-> [x.s EXCEPT !.pc = "awaitInner"]]

\* yield* toAsyncGenerator(resultOrDeferred), first call: toAsyncGenerator
\* throws, or delegates to the handler's generator, or starts the bridge on
\* a source that emits vs and ends as e says inside subscribe()
StartDelegation(x, awaited, v, vs, e) ==
  LET to == ToAsyncGenerator(awaited) IN
  CASE to = "bridge" ->
         [b |-> RunLoop(Subscribe(Enqueue(x.b, "next"), vs, e)),
          s |-> [x.s EXCEPT !.pc = "awaitInner", !.inner = "bridge",
                            !.awaited = awaited, !.result = v]]
    [] to = "asyncgen" ->
         [b |-> x.b,
          s |-> [x.s EXCEPT !.pc = "awaitInner", !.inner = "asyncgen",
                            !.awaited = awaited, !.result = v]]
    [] OTHER ->
         [b |-> x.b,
          s |-> [x.s EXCEPT !.pc = "relay", !.awaited = awaited,
                            !.result = v,
                            !.upResult = Outcome("inner", "error", NoValue,
                                                 UnsupportedInput(v))]]

AdapterResumesEnds(x) ==
  [x EXCEPT !.s = DrainCompleted([x.s EXCEPT !.pc = "completed"])]
\* the adapter yielded a value: it stays suspended at the yield, or takes
\* the next queued call at once
AdapterResumes(x) ==
  IF x.s.requests = <<>> THEN [x EXCEPT !.s.pc = "suspendedYield"]
  ELSE PassDown(x, Head(x.s.requests))

\* ------------------------------------------------ transformToObservable
\* resultOrDeferred: a plain value, a Promise (pending or already settled
\* when it is passed in) or an Observable
NoInput == [shape |-> "none", v |-> NoValue]
NoOutput == [id |-> "none", kind |-> "none"]
NoPromise == [state |-> "none", v |-> NoValue, c |-> Null]
PromiseStates ==
  {[state |-> "pending", v |-> NoValue, c |-> Null]}
  \cup {[state |-> "fulfilled", v |-> v, c |-> Null] : v \in JsValues}
  \cup {[state |-> "rejected", v |-> NoValue, c |-> c] : c \in Causes}
NormalizerInputs ==
  {[shape |-> "value", v |-> v] : v \in JsValues}
  \cup {[shape |-> "promise", v |-> "promiseIn"],
        [shape |-> "observable", v |-> "obsIn"]}

\* transformToObservable(resultOrDeferred): the Observable it returns
TransformToObservableAlwaysWraps(input) ==
  IF input.shape = "promise" THEN [id |-> "new", kind |-> "fromPromise"]
  ELSE [id |-> "new", kind |-> "fromValue"]
TransformToObservable(input) ==
  IF input.shape = "observable" THEN [id |-> input.v, kind |-> "passthrough"]
  ELSE IF input.shape = "promise" THEN [id |-> "new", kind |-> "fromPromise"]
  ELSE [id |-> "new", kind |-> "fromValue"]

\* a subscriber of the returned Observable: what its observer received
Ev(ev, v, c) == [ev |-> ev, value |-> v, err |-> c]
NewSub == [state |-> "active", got |-> <<>>, reaction |-> FALSE]
SubNext(sub, v) ==
  IF sub.state = "active"
  THEN [sub EXCEPT !.got = Append(@, Ev("next", v, Null))] ELSE sub
SubError(sub, c) ==
  IF sub.state = "active"
  THEN [sub EXCEPT !.got = Append(@, Ev("error", NoValue, c)),
                   !.state = "stopped"]
  ELSE sub
SubComplete(sub) ==
  IF sub.state = "active"
  THEN [sub EXCEPT !.got = Append(@, Ev("complete", NoValue, Null)),
                   !.state = "stopped"]
  ELSE sub

\* new Observable((subscriber) => { subscriber.next(resultOrDeferred);
\*   subscriber.complete(); }): the subscribers after one more subscribed
ValueSubscribeFirstOnly(subs, v) ==
  IF subs = <<>> THEN Append(subs, SubComplete(SubNext(NewSub, v)))
  ELSE Append(subs, SubComplete(NewSub))
ValueSubscribe(subs, v) ==
  LET t == TransformValue(v)
  IN Append(subs, SubComplete(SubNext(NewSub, t.values[1])))

\* .then((value) => { subscriber.next(value); subscriber.complete(); })
ThenReactionEmitsOnly(sub, v) == SubNext(sub, v)
ThenReaction(sub, v) == SubComplete(SubNext(sub, v))

\* .catch((error) => { subscriber.error(error); })
CatchReaction(sub, c) == SubError(sub, c)

\* ------------------------------------------------------ handler registry
ServiceNames == {"ServiceA", "ServiceB"}
RpcNames == {"method1", "method2"}
ValidKinds == {"no_stream", "rx_stream", "pt_stream", "duplex_stream"}
StreamingKinds == ValidKinds \cup {"bogus_stream"}
NullHandler == "null"
Callbacks == {"handler1", NullHandler}
Descriptors == {"descX", "descY"}

\* ConnectRpcPattern objects
Patterns == [service : ServiceNames, rpc : RpcNames, streaming : StreamingKinds]

\* JSON.stringify(pattern): the text lists the fields in the object's order
JsonStringify(p) == <<"service", p.service, "rpc", p.rpc,
                      "streaming", p.streaming>>

\* the patterns addHandler is given: a string, or a pattern object
StringPatterns == {"test-pattern", "event-pattern"}
PatternObject(p) == [type |-> "object", val |-> p]
PatternString(s) == [type |-> "string", val |-> s]

\* JSON.stringify of a string is the string in double quotes
JsonStringifyString(s) == <<"\"", s, "\"">>

\* const route =
\*   typeof pattern === 'string' ? pattern : JSON.stringify(pattern);
RouteOfAlwaysSerializes(pattern) ==
  IF pattern.type = "string" THEN JsonStringifyString(pattern.val)
  ELSE JsonStringify(pattern.val)
RouteOf(pattern) ==
  IF pattern.type = "string" THEN <<pattern.val>>
  ELSE JsonStringify(pattern.val)

\* JSON.parse(key) throws a SyntaxError unless the key is the text of a
\* JSON value: the serialization of a pattern object is, a plain string such
\* as test-pattern is not
JsonParses(k) == Len(k) = 6
SyntaxError == "SyntaxError: Unexpected token"

\* JSON.parse(key) as ConnectRpcPattern
JsonParse(k) == [service |-> k[2], rpc |-> k[4], streaming |-> k[6]]

EmptyMethods == [m \in {} |-> m]
TableServices(t) == {t[i].service : i \in 1..Len(t)}
SubTable(t, sv) == (CHOOSE i \in 1..Len(t) : t[i].service = sv)

\* Map.prototype.set: a new key is appended, an existing key keeps its place
MapSet(map, k, h) ==
  IF \E i \in 1..Len(map) : map[i].key = k
  THEN [i \in 1..Len(map) |->
          IF map[i].key = k THEN [key |-> k, handler |-> h] ELSE map[i]]
  ELSE Append(map, [key |-> k, handler |-> h])

\* if (!serviceHandlers[service]) { serviceHandlers[service] = {}; }
EnsureSubTableResets(t, sv) ==
  IF sv \in TableServices(t)
  THEN [i \in 1..Len(t) |->
          IF t[i].service = sv THEN [t[i] EXCEPT !.methods = EmptyMethods]
          ELSE t[i]]
  ELSE Append(t, [service |-> sv, methods |-> EmptyMethods])
EnsureSubTable(t, sv) ==
  IF sv \in TableServices(t) THEN t
  ELSE Append(t, [service |-> sv, methods |-> EmptyMethods])

\* serviceHandlers[service][pattern.rpc] = ...
PutMethodKeepsFirst(t, sv, rpc, adapter) ==
  [i \in 1..Len(t) |->
     IF t[i].service = sv
     THEN [t[i] EXCEPT !.methods = @ @@ (rpc :> adapter)]
     ELSE t[i]]
PutMethod(t, sv, rpc, adapter) ==
  [i \in 1..Len(t) |->
     IF t[i].service = sv
     THEN [t[i] EXCEPT !.methods = (rpc :> adapter) @@ @]
     ELSE t[i]]

\* switch (streamingType): the adapter built for the entry, or the throw of
\* the default case
SwitchDefaultsToUnary(kind, handler) ==
  IF kind \in ValidKinds
  THEN [ok |-> TRUE, adapter |-> [kind |-> kind, handler |-> handler]]
  ELSE [ok |-> TRUE, adapter |-> [kind |-> "no_stream", handler |-> handler]]
Switch(kind, handler) ==
  CASE kind = "no_stream" ->
         [ok |-> TRUE, adapter |-> [kind |-> "no_stream", handler |-> handler]]
    [] kind = "rx_stream" ->
         [ok |-> TRUE, adapter |-> [kind |-> "rx_stream", handler |-> handler]]
    [] kind = "pt_stream" ->
         [ok |-> TRUE, adapter |-> [kind |-> "pt_stream", handler |-> handler]]
    [] kind = "duplex_stream" ->
         [ok |-> TRUE,
          adapter |-> [kind |-> "duplex_stream", handler |-> handler]]
    [] OTHER ->
         [ok |-> FALSE, adapter |-> [kind |-> kind, handler |-> handler]]

\* if (!handler) continue;
SkipHandlerNever(handler) == FALSE
SkipHandler(handler) == handler = NullHandler

\* createServiceHandlers(handlers): the loop over the map's entries
RECURSIVE CreateServiceHandlersFrom(_, _)
CreateServiceHandlersFrom(entries, t) ==
  IF entries = <<>> THEN [ok |-> TRUE, table |-> t, error |-> ""]
  ELSE IF ~JsonParses(Head(entries).key)
  THEN [ok |-> FALSE, table |-> <<>>, error |-> SyntaxError]
  ELSE
    LET p == JsonParse(Head(entries).key)
        handler == Head(entries).handler
        t1 == EnsureSubTable(t, p.service)
        sw == Switch(p.streaming, handler)
    IN IF SkipHandler(handler)
       THEN CreateServiceHandlersFrom(Tail(entries), t)
       ELSE IF sw.ok
       THEN CreateServiceHandlersFrom(
              Tail(entries), PutMethod(t1, p.service, p.rpc, sw.adapter))
       ELSE [ok |-> FALSE, table |-> <<>>,
             error |-> "Invalid streaming type: " \o p.streaming]

CreateServiceHandlers(handlers) == CreateServiceHandlersFrom(handlers, <<>>)

\* addServicesToRouter(router, serviceHandlers): the router.service calls.
\* impl is the sub-table object itself, known by the key it is stored under.
RECURSIVE AddServicesStopsAtMissing(_, _, _)
AddServicesStopsAtMissing(calls_, t, store) ==
  IF t = <<>> THEN calls_
  ELSE IF Head(t).service \in DOMAIN store
  THEN AddServicesStopsAtMissing(
         Append(calls_, [desc |-> store[Head(t).service],
                         impl |-> Head(t)]), Tail(t), store)
  ELSE calls_
RECURSIVE AddServicesToRouter(_, _, _)
AddServicesToRouter(calls_, t, store) ==
  IF t = <<>> THEN calls_
  ELSE IF Head(t).service \in DOMAIN store
  THEN AddServicesToRouter(
         Append(calls_, [desc |-> store[Head(t).service],
                         impl |-> Head(t)]), Tail(t), store)
  ELSE AddServicesToRouter(calls_, Tail(t), store)

\* the table after addServicesToRouter went through it: the loop reads
\* Object.keys(serviceHandlers) and serviceHandlers[serviceName], it writes
\* nothing
TableAfterAttachDropsUnregistered(t, store) ==
  SelectSeq(t, LAMBDA st : st.service \in DOMAIN store)
TableAfterAttach(t, store) == t

\* the registries the decorators can have filled before the strategy starts
\* (descriptors are opaque objects: the one stored under ServiceA is the one
\* named descX, the other name may hold the same descriptor or another one)
MetadataStores ==
  {st \in UNION {[names -> Descriptors] : names \in SUBSET ServiceNames} :
     "ServiceA" \in DOMAIN st => st["ServiceA"] = "descX"}

InitCalls ==
  /\ pc = "suspendedStart" /\ queue = <<>> /\ error = Null
  /\ completed = FALSE /\ resolve = FALSE /\ woken = FALSE
  /\ item = NoValue /\ requests = <<>> /\ settled = <<>> /\ src = "idle"
  /\ emitted = <<>> /\ cause = Null /\ term = "none"
  /\ subscribeCalls = 0 /\ unsubscribeCalls = 0 /\ calls = 0
  /\ burst = FALSE
  /\ uPc = "idle" /\ uKind = "none" /\ uShape = "none" /\ uResult = NoValue
  /\ uHasValue = FALSE /\ uValue = NoValue
  /\ uOutcome = Outcome("call", "pending", NoValue, Null) /\ uSettles = 0
  /\ uEmitted = <<>> /\ uTerm = "none" /\ uCause = Null
  /\ uHandlerCalls = 0 /\ uArgs = NoArgs /\ uHandlerArgs = NoArgs
  /\ uAwaited = "none" /\ uRejection = Null /\ uReqPulled = 0
  /\ sPc = "idle" /\ sKind = "none" /\ sHandler = "none"
  /\ sArgs = NoArgs /\ sHandlerArgs = NoArgs /\ sHandlerCalls = 0
  /\ sShape = "none" /\ sAwaited = "none" /\ sResult = NoValue
  /\ sRejection = Null /\ sInner = "none" /\ sUpResult = NoOutcome
  /\ sSeen = 0 /\ sRequests = <<>> /\ sSettled = <<>> /\ sCalls = 0
  /\ sCallNo = 0 /\ sPrior = FALSE /\ sReqSeq = <<>> /\ sReqIdx = 0
  /\ sEchoDone = FALSE /\ gEmitted = <<>>
  /\ peer = BridgeInitial /\ pushed = [c \in CallIds |-> <<>>] /\ late = 0
  /\ nPc = "idle" /\ nInput = NoInput /\ nOutput = NoOutput
  /\ nPromise = NoPromise /\ nSubs = <<>> /\ nInputSubs = 0
  /\ nPushed = <<>>

\* #server: ConnectRpcServer | null = null;
InitStrategy ==
  /\ server = 0 /\ instances = <<>> /\ listens = <<>> /\ closes = <<>>
  /\ lastOp = "none"

InitRouter ==
  /\ rPhase = "registering"
  /\ serviceHandlers = <<>> /\ regError = "" /\ routerServices = <<>>
  /\ added = <<>> /\ flagged = {}

InitRegistry ==
  /\ messageHandlers = <<>> /\ InitRouter
  /\ InitStrategy /\ protocol = "http"

Init == InitCalls /\ InitRegistry /\ metadataStore = EmptyMethods

\* the strategy is constructed after the controllers' decorators have run
RegistryInit == InitCalls /\ InitRegistry /\ metadataStore \in MetadataStores

\* ----------------------------------------------------- consumer's actions

\* gen.next() on a generator that has not started: the body runs up to its
\* first suspension point within the call.
FirstNext ==
  /\ pc = "suspendedStart" /\ calls < MaxReq
  /\ \E vs \in BoundedSeq(JsValues, MaxEmit), e \in SyncEnds :
       SetB(RunLoop(Subscribe(Enqueue(B, "next"), vs, e)))
  /\ UNCHANGED <<uvars, rvars, svars, pvars, nvars>>

\* gen.next() on a generator suspended at the yield
NextAtYield ==
  /\ pc = "suspendedYield" /\ calls < MaxReq
  /\ SetB(RunLoop(Enqueue(B, "next")))
  /\ UNCHANGED <<uvars, rvars, svars, pvars, nvars>>

\* gen.next() / gen.return() while the body is running (inside an await)
CallWhileRunning ==
  /\ pc \in {"yielding", "awaiting", "returning"} /\ calls < MaxReq
  /\ \E r \in {"next", "return"} : SetB(Enqueue(B, r))
  /\ UNCHANGED <<uvars, rvars, svars, pvars, nvars>>

\* gen.next() / gen.return() on a completed generator
CallWhenCompleted ==
  /\ pc = "completed" /\ calls < MaxReq
  /\ \E r \in {"next", "return"} : SetB(DrainCompleted(Enqueue(B, r)))
  /\ UNCHANGED <<uvars, rvars, svars, pvars, nvars>>

\* gen.return() on a suspended generator: the return completion is awaited
\* first, the finally block runs in ReturnStep.
ReturnWhenSuspended ==
  /\ pc \in {"suspendedStart", "suspendedYield"} /\ calls < MaxReq
  /\ SetB([Enqueue(B, "return") EXCEPT !.pc = "returning"])
  /\ UNCHANGED <<uvars, rvars, svars, pvars, nvars>>

\* ---------------------------------------------------- generator's actions
\* yield item: the pending next() settles with the item; a queued request
\* resumes the body at once.
YieldStep ==
  /\ pc = "yielding"
  /\ SetB(ResumeNext([Settle(B, "value", item, Null)
                        EXCEPT !.pc = "suspendedYield"]))
  /\ UNCHANGED <<uvars, rvars, svars, pvars, nvars>>

\* resumption after `await new Promise(...)`: resolve = null, loop again
WakeStep ==
  /\ pc = "awaiting" /\ woken
  /\ SetB(RunLoop([B EXCEPT !.resolve = FALSE, !.woken = FALSE]))
  /\ UNCHANGED <<uvars, rvars, svars, pvars, nvars>>

\* the return completion: the finally block when the try block was entered
ReturnStep ==
  /\ pc = "returning"
  /\ SetB(DrainCompleted(Settle(ReturnCompletion(B), "done", NoValue, Null)))
  /\ UNCHANGED <<uvars, rvars, svars, pvars, nvars>>

\* ------------------------------------------------------- source's actions
SourceNext ==
  /\ src = "active" /\ Len(emitted) < MaxEmit
  /\ \E v \in JsValues : SetB(OnNext(B, v))
  /\ UNCHANGED <<uvars, rvars, svars, pvars, nvars>>

SourceError ==
  /\ src = "active"
  /\ \E c \in Causes : SetB(OnError(B, c))
  /\ UNCHANGED <<uvars, rvars, svars, pvars, nvars>>

SourceComplete ==
  /\ src = "active"
  /\ SetB(OnComplete(B))
  /\ UNCHANGED <<uvars, rvars, svars, pvars, nvars>>

BridgeStep == YieldStep \/ WakeStep \/ ReturnStep

Next ==
  \/ FirstNext \/ NextAtYield \/ CallWhileRunning \/ CallWhenCompleted
  \/ ReturnWhenSuspended
  \/ YieldStep \/ WakeStep \/ ReturnStep
  \/ SourceNext \/ SourceError \/ SourceComplete

Spec == Init /\ [][Next]_vars

\* The producer goes on calling the subscriber after the terminal event or
\* after the unsubscription.
LateSourceNext ==
  /\ src \in {"stopped", "cancelled"} /\ late < MaxLate
  /\ \E v \in JsValues : SetB(SubscriberNext(B, v))
  /\ late' = late + 1
  /\ UNCHANGED <<peer, pushed, uvars, rvars, svars, nvars>>

LateSourceError ==
  /\ src \in {"stopped", "cancelled"} /\ late < MaxLate
  /\ \E c \in Causes : SetB(SubscriberError(B, c))
  /\ late' = late + 1
  /\ UNCHANGED <<peer, pushed, uvars, rvars, svars, nvars>>

LateSourceComplete ==
  /\ src \in {"stopped", "cancelled"} /\ late < MaxLate
  /\ SetB(SubscriberComplete(B))
  /\ late' = late + 1
  /\ UNCHANGED <<peer, pushed, uvars, rvars, svars, nvars>>

LateNext == Next \/ LateSourceNext \/ LateSourceError \/ LateSourceComplete

LateSpec == Init /\ [][LateNext]_vars

\* The event loop runs every continuation that is ready.
FairSpec == Spec /\ WF_vars(YieldStep) /\ WF_vars(WakeStep) /\ WF_vars(ReturnStep)

\* ------------------------------------------------------ adapter's actions
\* const result = handler(request, context); const resultOrDeferred = await
AdapterCall ==
  /\ uPc = "idle"
  /\ \E k \in {"no_stream", "pt_stream"}, r \in HandlerResults :
       /\ uKind' = k /\ uShape' = r.shape /\ uResult' = r.v
  /\ \E q \in Requests, c \in Contexts :
       /\ uArgs' = [request |-> q, context |-> c]
       /\ uHandlerArgs' = HandlerArgs(q, c)
  /\ uHandlerCalls' = uHandlerCalls + 1
  /\ uPc' = "awaitResult"
  /\ UNCHANGED <<uHasValue, uValue, uOutcome, uSettles, uEmitted, uTerm,
                 uCause, uAwaited, uRejection, uReqPulled>>
  /\ UNCHANGED <<bvars, rvars, svars, pvars, nvars>>

\* the await of an immediate value resumes:
\* return lastValueFrom(transformToObservable(resultOrDeferred))
AwaitedValue ==
  /\ uPc = "awaitResult" /\ uShape = "value"
  /\ SetU(LastValueFrom(U, TransformValue(uResult).values,
                        TransformValue(uResult).e))
  /\ uAwaited' = "value"
  /\ UNCHANGED <<uKind, uShape, uResult, uHandlerCalls, uArgs, uHandlerArgs,
                 uRejection, uReqPulled>>
  /\ UNCHANGED <<bvars, rvars, svars, pvars, nvars>>

\* the await of an Observable resumes: transformToObservable passes it
\* through and lastValueFrom subscribes to it
AwaitedObservable ==
  /\ uPc = "awaitResult" /\ uShape = "observable"
  /\ \E vs \in BoundedSeq(JsValues, MaxUEmit), e \in SyncEnds :
       SetU(LastValueFrom(U, vs, e))
  /\ uAwaited' = "observable"
  /\ UNCHANGED <<uKind, uShape, uResult, uHandlerCalls, uArgs, uHandlerArgs,
                 uRejection, uReqPulled>>
  /\ UNCHANGED <<bvars, rvars, svars, pvars, nvars>>

\* the handler's promise settles and the await resumes with what it settled
\* to, or throws its rejection
AwaitedPromise ==
  /\ uPc = "awaitResult" /\ uShape = "promise"
  /\ \E p \in Settlements :
       /\ uAwaited' = p.to /\ uResult' = p.v /\ uRejection' = p.c
       /\ CASE p.to = "value" ->
                SetU(LastValueFrom(U, TransformValue(p.v).values,
                                   TransformValue(p.v).e))
           [] p.to = "observable" ->
                \E vs \in BoundedSeq(JsValues, MaxUEmit), e \in SyncEnds :
                  SetU(LastValueFrom(U, vs, e))
           [] OTHER -> SetU(AwaitThrows(U, p.c))
  /\ UNCHANGED <<uKind, uShape, uHandlerCalls, uArgs, uHandlerArgs,
                 uReqPulled>>
  /\ UNCHANGED <<bvars, rvars, svars, pvars, nvars>>

\* a ClientStream handler takes the next request from the pull sequence it
\* was given (for await (const request of requests))
HandlerPull ==
  /\ uKind = "pt_stream" /\ uPc \in {"awaitResult", "subscribed"}
  /\ uReqPulled < MaxPulls
  /\ uReqPulled' = uReqPulled + 1
  /\ UNCHANGED <<uPc, uKind, uShape, uResult, uHasValue, uValue, uOutcome,
                 uSettles, uEmitted, uTerm, uCause, uHandlerCalls, uArgs,
                 uHandlerArgs, uAwaited, uRejection>>
  /\ UNCHANGED <<bvars, rvars, svars, pvars, nvars>>

\* the handler's stream emits after subscribe() returned
StreamNext ==
  /\ uPc = "subscribed" /\ Len(uEmitted) < MaxUEmit
  /\ \E v \in JsValues : SetU(LastValueNext(U, v))
  /\ UNCHANGED <<uKind, uShape, uResult, uHandlerCalls, uArgs, uHandlerArgs,
                 uAwaited, uRejection, uReqPulled>>
  /\ UNCHANGED <<bvars, rvars, svars, pvars, nvars>>

StreamComplete ==
  /\ uPc = "subscribed"
  /\ SetU(LastValueComplete(U))
  /\ UNCHANGED <<uKind, uShape, uResult, uHandlerCalls, uArgs, uHandlerArgs,
                 uAwaited, uRejection, uReqPulled>>
  /\ UNCHANGED <<bvars, rvars, svars, pvars, nvars>>

StreamError ==
  /\ uPc = "subscribed"
  /\ \E c \in Causes : SetU(LastValueError(U, c))
  /\ UNCHANGED <<uKind, uShape, uResult, uHandlerCalls, uArgs, uHandlerArgs,
                 uAwaited, uRejection, uReqPulled>>
  /\ UNCHANGED <<bvars, rvars, svars, pvars, nvars>>

UnaryNext ==
  \/ AdapterCall \/ AwaitedValue \/ AwaitedObservable \/ AwaitedPromise
  \/ StreamNext \/ StreamComplete \/ StreamError \/ HandlerPull

UnarySpec == Init /\ [][UnaryNext]_vars

\* ------------------------------------------------------ registry actions
\* ConnectRpcServerStrategy.addHandler(pattern, callback)
AddHandlerWith(pattern, callback, isEventHandler) ==
  LET route == RouteOf(pattern) IN
  /\ flagged' = IF isEventHandler THEN flagged \cup {callback} ELSE flagged
  /\ messageHandlers' = MapSet(messageHandlers, route, callback)
  /\ UNCHANGED <<metadataStore, rPhase, serviceHandlers, regError,
                 routerServices, lvars>>
  /\ UNCHANGED <<bvars, uvars, svars, pvars, nvars>>

\* addHandler called by the framework with the pattern objects of the
\* decorated methods
AddHandler ==
  /\ rPhase = "registering"
  /\ \E p \in Patterns, cb \in Callbacks :
       /\ Len(MapSet(messageHandlers, RouteOf(PatternObject(p)), cb))
            <= MaxEntries
       /\ AddHandlerWith(PatternObject(p), cb, FALSE)
  /\ UNCHANGED added

\* addHandler called with any pattern, the calls being recorded
HandlerFns == {"handler1", "handler2"}
AnyPatterns ==
  {PatternString(s) : s \in StringPatterns}
  \cup {PatternObject(p) : p \in {q \in Patterns :
                                    /\ q.service = "ServiceA"
                                    /\ q.streaming = "no_stream"}}
AddAnyHandler ==
  /\ Len(added) < MaxAdds
  /\ \E pattern \in AnyPatterns, callback \in HandlerFns,
        isEventHandler \in BOOLEAN :
       /\ AddHandlerWith(pattern, callback, isEventHandler)
       /\ added' = Append(added, [pattern |-> pattern, callback |-> callback,
                                  isEventHandler |-> isEventHandler])

AddHandlerSpec == Init /\ [][AddAnyHandler]_vars

\* the router function of createRouter():
\*   const serviceHandlers = createServiceHandlers(this.getHandlers());
\*   addServicesToRouter(router, serviceHandlers);
RouterFunction ==
  /\ rPhase = "registering"
  /\ LET res == CreateServiceHandlers(messageHandlers) IN
       IF res.ok
       THEN /\ rPhase' = "built"
            /\ serviceHandlers' = TableAfterAttach(res.table, metadataStore)
            /\ routerServices' =
                 AddServicesToRouter(routerServices, res.table, metadataStore)
            /\ UNCHANGED regError
       ELSE /\ rPhase' = "failed"
            /\ regError' = res.error
            /\ UNCHANGED <<serviceHandlers, routerServices>>
  /\ UNCHANGED <<messageHandlers, metadataStore, added, flagged, lvars>>
  /\ UNCHANGED <<bvars, uvars, svars, pvars, nvars>>

RegistryNext == AddHandler \/ RouterFunction

RegistrySpec == RegistryInit /\ [][RegistryNext]_vars

\* handlers are added with any pattern, then the router function runs
RoundTripNext == (rPhase = "registering" /\ AddAnyHandler) \/ RouterFunction

RoundTripSpec == Init /\ [][RoundTripNext]_vars

\* --------------------------------------------- streaming adapter actions
\* the transport calls the adapter: a generator object is created, nothing
\* of its body runs.  A later call starts from fresh locals.
SAdapterCall ==
  /\ sPc \in {"idle", "completed"} /\ sCallNo < MaxStreamCalls
  /\ \E k \in {"rx_stream", "duplex_stream"}, h \in {"free", "echo"},
        a \in StreamArgs, rs \in BoundedSeq(RequestItems, MaxPulls) :
       /\ h = "echo" => k = "duplex_stream"
       /\ h = "free" => rs = <<>>
       /\ SetS(GeneratorCreated([StreamInitial EXCEPT
                  !.kind = k, !.handler = h,
                  !.args = a, !.reqSeq = rs,
                  !.callNo = sCallNo + 1,
                  !.prior = sPrior \/
                            (/\ sSettled # <<>>
                             /\ sSettled[1].kind = "error"
                             /\ sSettled[1].err = UnsupportedInput(sResult)
                             /\ sAwaited = "value")]))
  /\ SetB(BridgeInitial)
  /\ UNCHANGED <<uvars, rvars, pvars, nvars>>

\* first next(): const result = handler(request, context); await result
SFirstNext ==
  /\ sPc = "suspendedStart" /\ sCalls < MaxStreamReq
  /\ \E r \in StreamResults :
       /\ sHandler = "echo" => r = "observable"
       /\ SetS([Enqueue(S, "next") EXCEPT
                  !.pc = "awaitResult", !.shape = r,
                  !.handlerCalls = @ + 1,
                  !.handlerArgs = HandlerArgs(sArgs.request, sArgs.context)])
  /\ UNCHANGED <<bvars, uvars, rvars, pvars, nvars>>

\* next() while the adapter is suspended at its yield (inside yield*)
SNextAtYield ==
  /\ sPc = "suspendedYield" /\ sCalls < MaxStreamReq
  /\ SetX(PassDown([b |-> B, s |-> Enqueue(S, "next")], "next"))
  /\ UNCHANGED <<uvars, rvars, pvars, nvars>>

\* return() while the adapter is suspended at its yield (inside yield*)
SReturnAtYield ==
  /\ sPc = "suspendedYield" /\ sCalls < MaxStreamReq
  /\ SetX(PassDown([b |-> B, s |-> Enqueue(S, "return")], "return"))
  /\ UNCHANGED <<uvars, rvars, pvars, nvars>>

\* return() before the first next(): the body never runs
SReturnAtStart ==
  /\ sPc = "suspendedStart" /\ sCalls < MaxStreamReq
  /\ SetS([Enqueue(S, "return") EXCEPT !.pc = "returning"])
  /\ UNCHANGED <<bvars, uvars, rvars, pvars, nvars>>

SReturnStep ==
  /\ sPc = "returning"
  /\ SetS(AdapterEnds(S, "done", NoValue, Null))
  /\ UNCHANGED <<bvars, uvars, rvars, pvars, nvars>>

\* next() / return() while the adapter's body is running
SCallWhileRunning ==
  /\ sPc \in {"awaitResult", "awaitInner", "relay", "returning"}
  /\ sCalls < MaxStreamReq
  /\ \E r \in {"next", "return"} : SetS(Enqueue(S, r))
  /\ UNCHANGED <<bvars, uvars, rvars, pvars, nvars>>

\* next() / return() on the completed adapter generator
SCallWhenCompleted ==
  /\ sPc = "completed" /\ sCalls < MaxStreamReq
  /\ \E r \in {"next", "return"} : SetS(DrainCompleted(Enqueue(S, r)))
  /\ UNCHANGED <<bvars, uvars, rvars, pvars, nvars>>

\* `await result` resumes with a plain value:
\* yield* toAsyncGenerator(resultOrDeferred)
SAwaitedValue ==
  /\ sPc = "awaitResult" /\ sShape = "value"
  /\ \E v \in StreamValues : SetX(StartDelegation(X, "value", v, <<>>, 
                                              [end |-> "none", c |-> Null]))
  /\ UNCHANGED <<uvars, rvars, pvars, nvars>>

\* `await result` resumes with an Observable
SAwaitedObservable ==
  /\ sPc = "awaitResult" /\ sShape = "observable"
  /\ \E vs \in BoundedSeq(StreamValues, MaxSyncBurst), e \in SyncEnds :
       /\ sHandler = "echo" => (vs = <<>> /\ e.end = "none")
       /\ SetX(StartDelegation(X, "observable", NoValue, vs, e))
  /\ UNCHANGED <<uvars, rvars, pvars, nvars>>

\* `await result` resumes with the handler's own async generator
SAwaitedGenerator ==
  /\ sPc = "awaitResult" /\ sShape = "asyncgen"
  /\ SetX(StartDelegation(X, "asyncgen", NoValue, <<>>,
                          [end |-> "none", c |-> Null]))
  /\ UNCHANGED <<uvars, rvars, pvars, nvars>>

\* the handler's promise settles: the await resumes with what it settled to
\* or throws its rejection out of the adapter
SAwaitedPromise ==
  /\ sPc = "awaitResult" /\ sShape = "promise"
  /\ \E p \in StreamSettlements :
       IF p.to = "rejected"
       THEN /\ SetS(AdapterEnds([S EXCEPT !.awaited = "rejected",
                                          !.rejection = p.c],
                                "error", NoValue, p.c))
            /\ UNCHANGED bvars
       ELSE \E vs \in BoundedSeq(StreamValues, MaxSyncBurst), e \in SyncEnds :
              /\ p.to # "observable" => (vs = <<>> /\ e.end = "none")
              /\ SetX(StartDelegation(X, p.to, p.v, vs, e))
  /\ UNCHANGED <<uvars, rvars, pvars, nvars>>

\* the bridge settled the call passed down to it: toAsyncGenerator's yield*
\* takes the result and hands it up
SInnerSettled ==
  /\ sPc = "awaitInner" /\ sInner = "bridge" /\ Len(settled) > sSeen
  /\ SetS([S EXCEPT !.pc = "relay", !.seen = @ + 1,
                    !.upResult = settled[sSeen + 1]])
  /\ UNCHANGED <<bvars, uvars, rvars, pvars, nvars>>

\* the handler's own generator settles the call passed down to it
SGenSettled ==
  /\ sPc = "awaitInner" /\ sInner = "asyncgen"
  /\ \/ /\ Head(sRequests) = "next" /\ Len(gEmitted) < MaxStreamEmit
        /\ \E v \in StreamValues :
             SetS([S EXCEPT !.pc = "relay", !.gEmitted = Append(@, v),
                            !.upResult = Outcome("inner", "value", v, Null)])
     \/ SetS([S EXCEPT !.pc = "relay",
                       !.upResult = Outcome("inner", "done", NoValue, Null)])
     \/ \E c \in Causes :
          SetS([S EXCEPT !.pc = "relay",
                         !.upResult = Outcome("inner", "error", NoValue, c)])
  /\ UNCHANGED <<bvars, uvars, rvars, pvars, nvars>>

\* the adapter's yield* takes the result handed up: it yields the value to
\* the caller, or ends when the inner generator is done, or throws its error
SRelay ==
  /\ sPc = "relay"
  /\ CASE sUpResult.kind = "value" ->
            SetX(AdapterResumes(
                   [b |-> B,
                    s |-> Settle(S, "value", sUpResult.value, Null)]))
       [] sUpResult.kind = "done" ->
            SetS(AdapterEnds(S, "done", NoValue, Null)) /\ UNCHANGED bvars
       [] OTHER ->
            /\ SetS(AdapterEnds(S, "error", NoValue, sUpResult.err))
            /\ UNCHANGED bvars
  /\ UNCHANGED <<uvars, rvars, pvars, nvars>>

\* TestController.bidiStream: for await (const request of requests)
\*   subscriber.next(Echo(request))
EchoNext ==
  /\ sHandler = "echo" /\ subscribeCalls > 0 /\ sReqIdx < Len(sReqSeq)
  /\ sReqIdx' = sReqIdx + 1
  /\ IF src = "active" THEN SetB(OnNext(B, Echo(sReqSeq[sReqIdx + 1])))
     ELSE UNCHANGED bvars
  /\ UNCHANGED <<sPc, sKind, sHandler, sArgs, sHandlerArgs, sHandlerCalls,
                 sShape, sAwaited, sResult, sRejection, sInner, sUpResult,
                 sSeen, sRequests, sSettled, sCalls, sCallNo, sPrior, sReqSeq,
                 sEchoDone, gEmitted>>
  /\ UNCHANGED <<uvars, rvars, pvars, nvars>>

\* TestController.bidiStream: subscriber.complete() after the loop
EchoComplete ==
  /\ sHandler = "echo" /\ subscribeCalls > 0 /\ sReqIdx = Len(sReqSeq)
  /\ ~sEchoDone
  /\ sEchoDone' = TRUE
  /\ IF src = "active" THEN SetB(OnComplete(B)) ELSE UNCHANGED bvars
  /\ UNCHANGED <<sPc, sKind, sHandler, sArgs, sHandlerArgs, sHandlerCalls,
                 sShape, sAwaited, sResult, sRejection, sInner, sUpResult,
                 sSeen, sRequests, sSettled, sCalls, sCallNo, sPrior, sReqSeq,
                 sReqIdx, gEmitted>>
  /\ UNCHANGED <<uvars, rvars, pvars, nvars>>

\* a handler's Observable emits a value: subscriber.next(v)
StreamSourceNext ==
  /\ src = "active" /\ Len(emitted) < MaxStreamEmit
  /\ \E v \in StreamValues : SetB(OnNext(B, v))
  /\ UNCHANGED <<uvars, rvars, svars, pvars, nvars>>

\* a handler's Observable that emits and ends as it likes
FreeSource ==
  /\ sHandler = "free"
  /\ (StreamSourceNext \/ SourceError \/ SourceComplete)

StreamAdapterNext ==
  \/ SAdapterCall \/ SFirstNext \/ SNextAtYield \/ SReturnAtYield
  \/ SReturnAtStart \/ SReturnStep \/ SCallWhileRunning
  \/ SCallWhenCompleted
  \/ SAwaitedValue \/ SAwaitedObservable \/ SAwaitedGenerator
  \/ SAwaitedPromise
  \/ SInnerSettled \/ SGenSettled \/ SRelay
  \/ YieldStep \/ WakeStep \/ ReturnStep
  \/ FreeSource \/ EchoNext \/ EchoComplete

StreamSpec == Init /\ [][StreamAdapterNext]_vars

\* The event loop runs every continuation that is ready.
StreamFairSpec ==
  /\ StreamSpec
  /\ WF_vars(SReturnStep) /\ WF_vars(SInnerSettled) /\ WF_vars(SRelay)
  /\ WF_vars(YieldStep) /\ WF_vars(WakeStep) /\ WF_vars(ReturnStep)

\* ------------------------------------------------------- one call, any kind
\* The transport makes a call through a unary adapter or through a streaming
\* adapter, or a consumer pulls from a bridge directly.
DispatchNext ==
  \/ (sCallNo = 0 /\ uPc = "idle" /\ Next)
  \/ (sCallNo = 0 /\ calls = 0 /\ UnaryNext)
  \/ (uPc = "idle" /\ (sCallNo > 0 \/ calls = 0) /\ StreamAdapterNext)

DispatchSpec == Init /\ [][DispatchNext]_vars

\* --------------------------------------------------- strategy lifecycle
\* ServerProtocol, and a value outside of it
ServerProtocols == {"http", "https", "http2", "http2_insecure"}
Protocols == {"http", "http2_insecure", "bogus"}

\* the handlers registered before listen() is called
ListenHandlerMaps ==
  {<<>>}
  \cup {<<[key |-> JsonStringify(p), handler |-> "handler1"]>> :
          p \in {q \in Patterns : q.service = "ServiceA" /\ q.rpc = "method1"
                                   /\ q.streaming \in {"no_stream",
                                                        "bogus_stream"}}}

ListenInit ==
  /\ InitCalls /\ InitRouter /\ InitStrategy
  /\ messageHandlers \in ListenHandlerMaps
  /\ metadataStore \in {st \in MetadataStores : DOMAIN st = {"ServiceA"}}
  /\ protocol \in Protocols

\* the listener of a server is accepting connections
Running(net) == net \in {"bound", "listening"}

\* listen(callback), up to its await.  new ConnectRpcServer(options, router)
\* runs createServerInstance(): the default case throws; otherwise
\* connectNodeAdapter({routes}) runs the router function at once, which
\* throws what createServiceHandlers throws.  #server is assigned only when
\* the constructor returned.  startServer() calls instance.listen(port, cb):
\* the port is bound or it is not, node reports either on a later tick.
Listen ==
  /\ Len(listens) < MaxListens
  /\ lastOp' = "listen"
  /\ IF protocol \notin ServerProtocols
     THEN /\ listens' = Append(listens,
                [pc |-> "done", target |-> 0,
                 callbacks |-> <<"Invalid protocol option">>])
          /\ UNCHANGED <<server, instances, rPhase, serviceHandlers,
                         regError, routerServices>>
     ELSE LET res == CreateServiceHandlers(messageHandlers) IN
          IF ~res.ok
          THEN /\ listens' = Append(listens,
                     [pc |-> "done", target |-> 0,
                      callbacks |-> <<res.error>>])
               /\ rPhase' = "failed" /\ regError' = res.error
               /\ UNCHANGED <<server, instances, serviceHandlers,
                              routerServices>>
          ELSE /\ \E bound \in BOOLEAN :
                    instances' = Append(instances,
                      [instance |-> TRUE,
                       net |-> IF bound THEN "bound" ELSE "failed"])
               /\ server' = Len(instances) + 1
               /\ listens' = Append(listens,
                     [pc |-> "awaitStart", target |-> Len(instances) + 1,
                      callbacks |-> <<>>])
               /\ rPhase' = "built"
               /\ serviceHandlers' = TableAfterAttach(res.table, metadataStore)
               /\ routerServices' =
                    AddServicesToRouter(<<>>, res.table, metadataStore)
               /\ UNCHANGED regError
  /\ UNCHANGED <<messageHandlers, metadataStore, added, flagged, protocol,
                 closes>>
  /\ UNCHANGED <<bvars, uvars, svars, pvars, nvars>>

\* the 'listening' event of a bound server whose handle is still open: the
\* callback given to instance.listen runs, startServer()'s promise resolves,
\* listen() goes on to callback()
ListeningEvent(i) ==
  /\ instances[i].net = "bound"
  /\ instances' = [instances EXCEPT ![i].net = "listening"]
  /\ listens' = [k \in 1..Len(listens) |->
                   IF listens[k].target = i /\ listens[k].pc = "awaitStart"
                   THEN [listens[k] EXCEPT
                           !.pc = "done", !.callbacks = Append(@, "ok")]
                   ELSE listens[k]]
  /\ UNCHANGED <<messageHandlers, metadataStore, rPhase, serviceHandlers,
                 regError, routerServices, added, flagged, protocol, server,
                 closes, lastOp>>
  /\ UNCHANGED <<bvars, uvars, svars, pvars, nvars>>

\* close(), up to its await: this.#server?.close().  ConnectRpcServer.close
\* resolves at once when #instance is null; otherwise it calls
\* server.close(cb), which closes the handle of a running server and reports
\* ERR_SERVER_NOT_RUNNING to cb for one that is not running.
Close ==
  /\ Len(closes) < MaxCloses
  /\ lastOp' = "close"
  /\ IF server = 0
     THEN /\ closes' = Append(closes,
                [pc |-> "awaitResolved", target |-> 0, err |-> FALSE])
          /\ UNCHANGED instances
     ELSE IF ~instances[server].instance
     THEN /\ closes' = Append(closes,
                [pc |-> "awaitResolved", target |-> server, err |-> FALSE])
          /\ UNCHANGED instances
     ELSE /\ closes' = Append(closes,
                [pc |-> "awaitClose", target |-> server,
                 err |-> ~Running(instances[server].net)])
          /\ instances' =
               [instances EXCEPT
                  ![server].net = IF Running(@) THEN "closing" ELSE @]
  /\ UNCHANGED <<messageHandlers, metadataStore, rPhase, serviceHandlers,
                 regError, routerServices, added, flagged, protocol, server,
                 listens>>
  /\ UNCHANGED <<bvars, uvars, svars, pvars, nvars>>

\* close() resumes after awaiting nothing, or a promise already resolved:
\* this.#server = null
CloseResumes(c) ==
  /\ closes[c].pc = "awaitResolved"
  /\ closes' = [closes EXCEPT ![c].pc = "resolved"]
  /\ server' = 0
  /\ UNCHANGED <<messageHandlers, metadataStore, rPhase, serviceHandlers,
                 regError, routerServices, added, flagged, protocol,
                 instances, listens, lastOp>>
  /\ UNCHANGED <<bvars, uvars, svars, pvars, nvars>>

\* this.#server = null runs in a close() whose awaited promise resolved; a
\* rejection leaves close() by the throw of the await
ServerAfterClose(i) ==
  IF \E c \in 1..Len(closes) :
       closes[c].pc = "awaitClose" /\ closes[c].target = i /\ ~closes[c].err
  THEN 0 ELSE server

\* the 'close' event of server i: the callbacks given to server.close run in
\* the order they were given (#instance = null; resolve or reject), then the
\* close() calls awaiting them resume
ServerCloseEvent(i) ==
  /\ \E c \in 1..Len(closes) :
       closes[c].pc = "awaitClose" /\ closes[c].target = i
  /\ instances' = [instances EXCEPT
                     ![i] = [instance |-> FALSE,
                             net |-> IF @.net = "closing" THEN "closed"
                                     ELSE @.net]]
  /\ closes' = [c \in 1..Len(closes) |->
                  IF closes[c].pc = "awaitClose" /\ closes[c].target = i
                  THEN [closes[c] EXCEPT
                          !.pc = IF closes[c].err THEN "rejected"
                                 ELSE "resolved"]
                  ELSE closes[c]]
  /\ server' = ServerAfterClose(i)
  /\ UNCHANGED <<messageHandlers, metadataStore, rPhase, serviceHandlers,
                 regError, routerServices, added, flagged, protocol,
                 listens, lastOp>>
  /\ UNCHANGED <<bvars, uvars, svars, pvars, nvars>>

ListenNext ==
  \/ Listen
  \/ \E i \in 1..Len(instances) : ListeningEvent(i)
  \/ Close
  \/ \E c \in 1..Len(closes) : CloseResumes(c)
  \/ \E i \in 1..Len(instances) : ServerCloseEvent(i)

ListenSpec == ListenInit /\ [][ListenNext]_vars

\* node delivers the events it has queued
ListenFairSpec ==
  /\ ListenSpec
  /\ WF_vars(\E i \in 1..Len(instances) : ListeningEvent(i))
  /\ WF_vars(\E c \in 1..Len(closes) : CloseResumes(c))
  /\ WF_vars(\E i \in 1..Len(instances) : ServerCloseEvent(i))

\* ------------------------------------------------- normalizer's actions
\* transformToObservable(resultOrDeferred) is called
NormalizerCall ==
  /\ nPc = "idle"
  /\ \E in \in NormalizerInputs, p \in PromiseStates :
       /\ nInput' = in
       /\ nOutput' = TransformToObservable(in)
       /\ nPromise' = IF in.shape = "promise" THEN p ELSE NoPromise
  /\ nPc' = "called"
  /\ UNCHANGED <<nSubs, nInputSubs, nPushed>>
  /\ UNCHANGED <<bvars, uvars, rvars, svars, pvars>>

\* the input promise settles
PromiseSettles ==
  /\ nPc = "called" /\ nPromise.state = "pending"
  /\ \E p \in PromiseStates : p.state # "pending" /\ nPromise' = p
  /\ UNCHANGED <<nPc, nInput, nOutput, nSubs, nInputSubs, nPushed>>
  /\ UNCHANGED <<bvars, uvars, rvars, svars, pvars>>

\* a consumer subscribes to the returned Observable: its subscribe function
\* runs
NormalizerSubscribe ==
  /\ nPc = "called" /\ Len(nSubs) < MaxSubs
  /\ nSubs' =
       CASE nOutput.kind = "fromValue" -> ValueSubscribe(nSubs, nInput.v)
         [] nOutput.kind = "fromPromise" ->
              Append(nSubs, [NewSub EXCEPT !.reaction = TRUE])
         [] OTHER -> Append(nSubs, NewSub)
  /\ nPushed' = Append(nPushed, <<>>)
  /\ UNCHANGED <<nPc, nInput, nOutput, nPromise, nInputSubs>>
  /\ UNCHANGED <<bvars, uvars, rvars, svars, pvars>>

\* the reaction attached to the settled promise runs for one subscriber
PromiseReaction ==
  /\ nPromise.state \in {"fulfilled", "rejected"}
  /\ \E i \in 1..Len(nSubs) :
       /\ nSubs[i].reaction
       /\ nSubs' =
            [nSubs EXCEPT ![i] =
               [(IF nPromise.state = "fulfilled"
                 THEN ThenReaction(nSubs[i], nPromise.v)
                 ELSE CatchReaction(nSubs[i], nPromise.c))
                EXCEPT !.reaction = FALSE]]
  /\ UNCHANGED <<nPc, nInput, nOutput, nPromise, nInputSubs, nPushed>>
  /\ UNCHANGED <<bvars, uvars, rvars, svars, pvars>>

\* a consumer unsubscribes
NormalizerUnsubscribe ==
  /\ \E i \in 1..Len(nSubs) :
       /\ nSubs[i].state = "active"
       /\ nSubs' = [nSubs EXCEPT ![i].state = "cancelled"]
  /\ UNCHANGED <<nPc, nInput, nOutput, nPromise, nInputSubs, nPushed>>
  /\ UNCHANGED <<bvars, uvars, rvars, svars, pvars>>

\* values pushed by the producer of the input Observable so far
RECURSIVE NextsPushed(_)
NextsPushed(ps) ==
  IF ps = <<>> THEN 0
  ELSE Cardinality({k \in 1..Len(Head(ps)) : Head(ps)[k].ev = "next"})
       + NextsPushed(Tail(ps))

\* what the producer of the input Observable pushes
InputValues == {"v1", Undefined}
InputCauses == {StringCause, Null}

\* the producer of the input Observable pushes an event to one of the
\* subscribers of the Observable that was returned
InputPushes ==
  /\ nInput.shape = "observable"
  /\ \E i \in 1..Len(nSubs) :
       /\ nSubs[i].state = "active"
       /\ \/ /\ NextsPushed(nPushed) < MaxNormEmit
             /\ \E v \in InputValues :
                  /\ nPushed' = [nPushed EXCEPT
                                   ![i] = Append(@, Ev("next", v, Null))]
                  /\ nSubs' = [nSubs EXCEPT ![i] = SubNext(@, v)]
          \/ /\ nPushed' = [nPushed EXCEPT
                              ![i] = Append(@, Ev("complete", NoValue, Null))]
             /\ nSubs' = [nSubs EXCEPT ![i] = SubComplete(@)]
          \/ \E c \in InputCauses :
               /\ nPushed' = [nPushed EXCEPT
                                ![i] = Append(@, Ev("error", NoValue, c))]
               /\ nSubs' = [nSubs EXCEPT ![i] = SubError(@, c)]
  /\ UNCHANGED <<nPc, nInput, nOutput, nPromise, nInputSubs>>
  /\ UNCHANGED <<bvars, uvars, rvars, svars, pvars>>

NormalizerNext ==
  \/ NormalizerCall \/ PromiseSettles \/ NormalizerSubscribe
  \/ PromiseReaction \/ NormalizerUnsubscribe \/ InputPushes

NormalizerSpec == Init /\ [][NormalizerNext]_vars

\* ------------------------------------------- registration, then a call
\* One handler is registered, the router function builds the table, and the
\* transport makes a call through the adapter the table holds.
ServePatterns ==
  {p \in Patterns : p.service = "ServiceA" /\ p.rpc = "method1"
                    /\ p.streaming \in ValidKinds}

ServeInit == RegistryInit /\ DOMAIN metadataStore \subseteq {"ServiceA"}

ServeAddHandler ==
  /\ messageHandlers = <<>>
  /\ AddHandler
  /\ \E p \in ServePatterns :
       messageHandlers' = <<[key |-> JsonStringify(p), handler |-> "handler1"]>>

\* the streaming kinds of the adapters in the table
TableKinds ==
  UNION {{serviceHandlers[i].methods[m].kind :
            m \in DOMAIN serviceHandlers[i].methods} :
         i \in 1..Len(serviceHandlers)}

ServeUnary ==
  /\ rPhase = "built" /\ TableKinds \cap {"no_stream", "pt_stream"} # {}
  /\ UnaryNext
  /\ uKind' \in TableKinds

ServeStream ==
  /\ rPhase = "built" /\ TableKinds \cap {"rx_stream", "duplex_stream"} # {}
  /\ StreamAdapterNext
  /\ sKind' \in TableKinds /\ sCallNo' = 1

ServeNext == ServeAddHandler \/ RouterFunction \/ ServeUnary \/ ServeStream

ServeSpec == ServeInit /\ [][ServeNext]_vars

\* ------------------------------------------ two bridges, interleaved
\* observableToAsyncGenerator called twice: each call has its own queue,
\* error, completed, resolve and subscription, the locals of its own
\* activation.
Locals(c) == IF c = "A" THEN B ELSE peer
SetLocals(c, s) ==
  IF c = "A" THEN SetB(s) /\ UNCHANGED peer
  ELSE peer' = s /\ UNCHANGED bvars

\* the activation whose locals the observer callbacks of call c close over
ClosureOfSharedLocals(c) == "A"
ClosureOf(c) == c

\* what the source of call c emits: values and causes are objects of its own
PairValues(c) == {"value of " \o c}
PairCauses(c) == {[tag |-> "Error", message |-> "error of " \o c,
                   by |-> "producer"]}

Pushes(c, ev, v, e) ==
  pushed' = [pushed EXCEPT ![c] = Append(@, [ev |-> ev, value |-> v, err |-> e])]

PFirstNext(c) ==
  /\ Locals(c).pc = "suspendedStart" /\ Locals(c).calls < MaxPairReq
  /\ SetLocals(c, RunLoop(Subscribe(Enqueue(Locals(c), "next"), <<>>,
                                    [end |-> "none", c |-> Null])))
  /\ UNCHANGED <<pushed, late, uvars, rvars, svars, nvars>>

PNextAtYield(c) ==
  /\ Locals(c).pc = "suspendedYield" /\ Locals(c).calls < MaxPairReq
  /\ SetLocals(c, RunLoop(Enqueue(Locals(c), "next")))
  /\ UNCHANGED <<pushed, late, uvars, rvars, svars, nvars>>

PCallWhileRunning(c) ==
  /\ Locals(c).pc \in {"yielding", "awaiting", "returning"}
  /\ Locals(c).calls < MaxPairReq
  /\ \E r \in {"next", "return"} : SetLocals(c, Enqueue(Locals(c), r))
  /\ UNCHANGED <<pushed, late, uvars, rvars, svars, nvars>>

PCallWhenCompleted(c) ==
  /\ Locals(c).pc = "completed" /\ Locals(c).calls < MaxPairReq
  /\ \E r \in {"next", "return"} :
       SetLocals(c, DrainCompleted(Enqueue(Locals(c), r)))
  /\ UNCHANGED <<pushed, late, uvars, rvars, svars, nvars>>

PReturnWhenSuspended(c) ==
  /\ Locals(c).pc \in {"suspendedStart", "suspendedYield"}
  /\ Locals(c).calls < MaxPairReq
  /\ SetLocals(c, [Enqueue(Locals(c), "return") EXCEPT !.pc = "returning"])
  /\ UNCHANGED <<pushed, late, uvars, rvars, svars, nvars>>

PYieldStep(c) ==
  /\ Locals(c).pc = "yielding"
  /\ SetLocals(c, ResumeNext([Settle(Locals(c), "value", Locals(c).item, Null)
                                EXCEPT !.pc = "suspendedYield"]))
  /\ UNCHANGED <<pushed, late, uvars, rvars, svars, nvars>>

PWakeStep(c) ==
  /\ Locals(c).pc = "awaiting" /\ Locals(c).woken
  /\ SetLocals(c, RunLoop([Locals(c) EXCEPT !.resolve = FALSE,
                                            !.woken = FALSE]))
  /\ UNCHANGED <<pushed, late, uvars, rvars, svars, nvars>>

PReturnStep(c) ==
  /\ Locals(c).pc = "returning"
  /\ LET s == IF Locals(c).subscribeCalls > 0 THEN Finally(Locals(c))
              ELSE [Locals(c) EXCEPT !.pc = "completed"]
     IN SetLocals(c, DrainCompleted(Settle(s, "done", NoValue, Null)))
  /\ UNCHANGED <<pushed, late, uvars, rvars, svars, nvars>>

\* the source of call c calls its observer: the callback writes the locals
\* it closes over
PSourceNext(c) ==
  /\ Locals(c).src = "active" /\ Len(pushed[c]) < MaxPairEmit
  /\ \E v \in PairValues(c) :
       /\ SetLocals(ClosureOf(c), OnNext(Locals(ClosureOf(c)), v))
       /\ Pushes(c, "next", v, Null)
  /\ UNCHANGED <<late, uvars, rvars, svars, nvars>>

PSourceError(c) ==
  /\ Locals(c).src = "active"
  /\ \E e \in PairCauses(c) :
       /\ SetLocals(ClosureOf(c), OnError(Locals(ClosureOf(c)), e))
       /\ Pushes(c, "error", NoValue, e)
  /\ UNCHANGED <<late, uvars, rvars, svars, nvars>>

PSourceComplete(c) ==
  /\ Locals(c).src = "active"
  /\ SetLocals(ClosureOf(c), OnComplete(Locals(ClosureOf(c))))
  /\ Pushes(c, "complete", NoValue, Null)
  /\ UNCHANGED <<late, uvars, rvars, svars, nvars>>

PairNext ==
  \E c \in CallIds :
    \/ PFirstNext(c) \/ PNextAtYield(c) \/ PCallWhileRunning(c)
    \/ PCallWhenCompleted(c) \/ PReturnWhenSuspended(c)
    \/ PYieldStep(c) \/ PWakeStep(c) \/ PReturnStep(c)
    \/ PSourceNext(c) \/ PSourceError(c) \/ PSourceComplete(c)

PairSpec == Init /\ [][PairNext]_vars

\* =============================================================== claims
Map(f(_), q) == [i \in 1..Len(q) |-> f(q[i])]
IsValueOutcome(o) == o.kind = "value"
ValueOf(o) == o.value
ReqOf(o) == o.req

\* the values yielded to the consumer so far, in order
YieldedValues == Map(ValueOf, SelectSeq(settled, IsValueOutcome))

RECURSIVE IsSubseq(_, _)
IsSubseq(a, b) ==
  IF a = <<>> THEN TRUE
  ELSE IF b = <<>> THEN FALSE
  ELSE IF Head(a) = Head(b) THEN IsSubseq(Tail(a), Tail(b))
  ELSE IsSubseq(a, Tail(b))

Range(q) == {q[i] : i \in 1..Len(q)}
ReturnRequested ==
  "return" \in Range(requests) \cup Range(Map(ReqOf, settled))

\* C1: order preservation.  The values yielded so far are, in the order they
\* were yielded, a subsequence of the values the source emitted (a value
\* emitted before another is never yielded after it), and every yielded
\* value answers one pull of its own.
C1_OrderPreserved ==
  /\ IsSubseq(YieldedValues, emitted)
  /\ \A i \in 1..Len(settled) :
       settled[i].kind = "value" => settled[i].req = "next"

\* two different values pushed within one suspension of the pull loop were
\* both yielded
C1_Witness ==
  /\ burst /\ Len(emitted) >= 2 /\ YieldedValues = emitted
  /\ emitted[Len(emitted) - 1] # emitted[Len(emitted)]

\* the consumer pulled until a pull signalled exhaustion, and never abandoned
Exhausted ==
  /\ ~ReturnRequested
  /\ \E i \in 1..Len(settled) : settled[i].kind = "done"

\* C2: exact delivery.  When the source completed and the consumer pulled
\* until exhaustion, the values yielded are exactly the values pushed.
C2_ExactDelivery ==
  (term = "complete" /\ Exhausted) => YieldedValues = emitted

\* C3: drain before error.  When a pull raises the error, every value the
\* source emitted before the error has been yielded by the earlier pulls,
\* in order, and the emission queue is empty.
C3_DrainBeforeError ==
  \A i \in 1..Len(settled) :
    settled[i].kind = "error" =>
      /\ Map(ValueOf, SelectSeq(SubSeq(settled, 1, i - 1), IsValueOutcome))
           = emitted
      /\ queue = <<>>

\* C4: cancellation exactly once.  unsubscribe is never called twice, and a
\* bridge that subscribed and whose generator has ended (by exhaustion, by
\* raising the error, or by the consumer's return) has called it once.
C4_CancelExactlyOnce ==
  /\ unsubscribeCalls <= 1
  /\ (pc = "completed" /\ subscribeCalls > 0) => unsubscribeCalls = 1

\* the consumer abandoned a still active source after one value
C4_Witness ==
  /\ pc = "completed" /\ src = "cancelled" /\ unsubscribeCalls = 1
  /\ Len(YieldedValues) >= 1
  /\ \E i \in 1..Len(settled) : settled[i].req = "return"

\* C5: no subscription leak, in the case the claim names.  Once the consumer
\* has abandoned a sequence whose bridge subscribed to a source that is still
\* active, unsubscribe is eventually called, also when the source emits
\* nothing further (a source that ends instead is not the case stated here).
C5_NoLeak ==
  (ReturnRequested /\ subscribeCalls > 0 /\ term = "none")
    ~> (unsubscribeCalls > 0 \/ term # "none")

\* C6: error surfacing.  Once the source signalled error, the pull loop is
\* not suspended on a wake handle that nothing has resolved, and no pull of
\* a consumer that did not abandon signals exhaustion unless an earlier pull
\* raised the error.
C6_ErrorSurfaces ==
  term = "error" =>
    /\ ~(pc = "awaiting" /\ ~woken)
    /\ ~ReturnRequested =>
         \A i \in 1..Len(settled) :
           settled[i].kind = "done" =>
             \E j \in 1..(i - 1) : settled[j].kind = "error"

\* C7 as stated: the error raised to the consumer is the very value the
\* producer passed to error().
C7_Verbatim ==
  \A i \in 1..Len(settled) :
    settled[i].kind = "error" => settled[i].err = cause

\* C7 as amended: the error raised is the producer's cause itself when the
\* cause is an Error object, and otherwise an Error the bridge creates
\* whose message is String(cause).
C7_ErrorOrWrapped ==
  \A i \in 1..Len(settled) :
    settled[i].kind = "error" =>
      /\ cause.tag = "Error" => settled[i].err = cause
      /\ cause.tag # "Error" =>
           /\ settled[i].err.tag = "Error"
           /\ settled[i].err.by = "bridge"
           /\ settled[i].err.message = JsString(cause)

\* a string cause was raised, wrapped, after a buffered value was drained
C7_Witness ==
  /\ cause = StringCause /\ Len(YieldedValues) >= 1
  /\ \E i \in 1..Len(settled) :
       /\ settled[i].kind = "error"
       /\ settled[i].err = [tag |-> "Error", message |-> "boom",
                            by |-> "bridge"]

\* C8: empty completion.  When the source completed without emitting, no
\* call yields a value or raises an error (each signals exhaustion), and
\* the pull loop is not left suspended.
C8_EmptyCompletion ==
  (term = "complete" /\ emitted = <<>>) =>
    /\ \A i \in 1..Len(settled) : settled[i].kind = "done"
    /\ ~(pc = "awaiting" /\ ~woken)

\* the first pull of an empty, completed source signalled exhaustion
C8_Witness ==
  /\ term = "complete" /\ emitted = <<>> /\ settled # <<>>
  /\ settled[1] = [req |-> "next", kind |-> "done", value |-> NoValue,
                   err |-> Null]
  /\ unsubscribeCalls = 1

\* C9: take last.  When the handler's result stream emitted k >= 1 values
\* and completed, the adapter resolved, once, to the last value emitted.
C9_TakeLast ==
  (uTerm = "complete" /\ Len(uEmitted) >= 1) =>
    /\ uOutcome.kind = "value"
    /\ uOutcome.value = uEmitted[Len(uEmitted)]
    /\ uSettles = 1

\* a stream emitted two different values and completed
C9_Witness ==
  /\ uTerm = "complete" /\ uShape = "observable" /\ Len(uEmitted) >= 2
  /\ uEmitted[1] # uEmitted[Len(uEmitted)]
  /\ uOutcome.kind = "value"

\* C10: empty result.  When the handler's result stream completed without
\* emitting, the adapter's call failed with the empty-result error and did
\* not resolve to a value.
C10_EmptyResult ==
  (uTerm = "complete" /\ uEmitted = <<>>) =>
    /\ uOutcome.kind = "error"
    /\ uOutcome.err = EmptyError
    /\ uOutcome.value = NoValue
    /\ uSettles = 1

\* a client-streaming handler's stream completed empty
C10_Witness ==
  /\ uTerm = "complete" /\ uEmitted = <<>> /\ uKind = "pt_stream"
  /\ uOutcome.kind = "error"

\* C11: stream error.  When the handler's result stream signalled an error,
\* the adapter's call failed with that very cause, whatever the stream had
\* emitted before, and did not resolve to a value.
C11_StreamError ==
  uTerm = "error" =>
    /\ uOutcome.kind = "error"
    /\ uOutcome.err = uCause
    /\ uOutcome.value = NoValue
    /\ uSettles = 1

\* a Unary handler's stream emitted a value and then failed with a cause
\* that is not an Error object
C11_Witness ==
  /\ uTerm = "error" /\ uKind = "no_stream" /\ Len(uEmitted) >= 1
  /\ uCause = StringCause /\ uOutcome.err = StringCause

\* C12: Unary normalization of values.  When the Unary handler returned a
\* value v, or a deferred value that settled to v, and the call has settled,
\* the handler was invoked once with the (request, context) pair the adapter
\* was called with, and the adapter resolved to v.
C12_UnaryValue ==
  (uKind = "no_stream" /\ uAwaited = "value") =>
    /\ uHandlerCalls = 1
    /\ uHandlerArgs = uArgs
    /\ uOutcome = Outcome("call", "value", uResult, Null)
    /\ uSettles = 1

\* a deferred value settled to v1 and the adapter resolved to it
C12_Witness ==
  /\ uKind = "no_stream" /\ uShape = "promise" /\ uAwaited = "value"
  /\ uResult = "v1" /\ uOutcome.value = "v1" /\ uPc = "settled"

\* C13: Unary deferred rejection.  When the Unary handler's deferred value
\* failed with cause e, the adapter's call failed with e and no value was
\* delivered.
C13_DeferredRejection ==
  (uKind = "no_stream" /\ uAwaited = "rejected") =>
    /\ uOutcome = Outcome("call", "error", NoValue, uRejection)
    /\ uSettles = 1
    /\ uEmitted = <<>>

\* the deferred value rejected with the string "boom"
C13_Witness ==
  /\ uKind = "no_stream" /\ uAwaited = "rejected"
  /\ uRejection = StringCause /\ uOutcome.err = StringCause

\* C37: Unary and ClientStream adapters settle only at stream termination.
\* While the stream lastValueFrom subscribed to has neither completed nor
\* errored, the adapter's promise is pending, whatever was emitted; and the
\* promise has resolved only when the stream completed.
C37_SettlesAtTermination ==
  /\ (uPc = "subscribed" /\ uTerm = "none") =>
       (uOutcome.kind = "pending" /\ uSettles = 0)
  /\ uOutcome.kind = "value" => uTerm = "complete"
  /\ (uOutcome.kind # "pending" /\ uAwaited # "rejected") => uTerm # "none"

\* a ClientStream call whose stream has emitted all it can and has not
\* ended: the call is still pending
C37_Witness ==
  /\ uKind = "pt_stream" /\ uAwaited = "observable"
  /\ Len(uEmitted) = MaxUEmit /\ uTerm = "none" /\ uOutcome.kind = "pending"

\* ---- streaming adapter claims
\* the values the adapter's caller received so far, in order
SDelivered == Map(ValueOf, SelectSeq(sSettled, IsValueOutcome))

SReturnRequested ==
  "return" \in Range(sRequests) \cup Range(Map(ReqOf, sSettled))

\* the caller pulled (and never cancelled) until the adapter said done
SExhausted ==
  /\ ~SReturnRequested
  /\ \E i \in 1..Len(sSettled) : sSettled[i].kind = "done"

UnsupportedErrors == {UnsupportedInput(v) : v \in StreamValues}

\* C14: ServerStream accepts every normalizer input shape.  When the
\* handler's result, immediate or deferred, is a plain value (other than
\* undefined), the caller's first pull receives that value and no pull
\* raises an error; when it is a
\* push-style stream that completed and the caller pulled until exhaustion,
\* the caller received exactly the emitted values, in order.
C14_AllShapesDelivered ==
  (sKind = "rx_stream") =>
    /\ (sAwaited = "value" /\ sResult # Undefined /\ sSettled # <<>>) =>
         /\ sSettled[1] = Outcome("next", "value", sResult, Null)
         /\ \A i \in 1..Len(sSettled) : sSettled[i].kind # "error"
    /\ (sAwaited = "observable" /\ term = "complete" /\ SExhausted) =>
         SDelivered = emitted

\* C15: BidiStream.  The handler was invoked with the request sequence and
\* context the adapter received, nothing taken from the sequence; for the
\* handler that pushes one response per request it consumes, the responses
\* the caller received are the responses to a prefix of the requests, in the
\* requests' order, each after its request was consumed; no pull raises an
\* error; and a pull reports the end only after the request sequence ended
\* and every response was delivered.
C15_BidiEcho ==
  (sKind = "duplex_stream" /\ sHandler = "echo") =>
    /\ sHandlerCalls > 0 =>
         (sHandlerCalls = 1 /\ sHandlerArgs = sArgs
          /\ sHandlerArgs.request.pulled = 0)
    /\ Len(SDelivered) <= sReqIdx
    /\ SDelivered = Map(Echo, SubSeq(sReqSeq, 1, Len(SDelivered)))
    /\ \A i \in 1..Len(sSettled) : sSettled[i].kind # "error"
    /\ SExhausted =>
         /\ sReqIdx = Len(sReqSeq) /\ sEchoDone
         /\ SDelivered = Map(Echo, sReqSeq)

\* ping then pong were echoed in that order and the next pull reported the
\* end
C15_Witness ==
  /\ sKind = "duplex_stream" /\ sHandler = "echo"
  /\ sReqSeq = <<"ping", "pong">>
  /\ SDelivered = <<"Echo: ping", "Echo: pong">>
  /\ SExhausted

\* C16: ClientStream passes the request sequence directly.  Once the
\* ClientStream adapter was called, the handler has been invoked once, with
\* the very sequence (same object, nothing taken from it) and context the
\* adapter received; and the adapter resolves only to a value the handler's
\* result produced, the last one.
C16_ClientStreamDirect ==
  (uKind = "pt_stream") =>
    /\ uHandlerCalls = 1
    /\ uHandlerArgs = uArgs
    /\ uHandlerArgs.request.pulled = 0
    /\ uOutcome.kind = "value" =>
         /\ uEmitted # <<>>
         /\ uOutcome.value = uEmitted[Len(uEmitted)]

\* the handler pulled the requests itself and the adapter resolved to the
\* value its deferred result settled to
C16_Witness ==
  /\ uKind = "pt_stream" /\ uReqPulled = MaxPulls /\ uShape = "promise"
  /\ uAwaited = "value" /\ uOutcome.kind = "value" /\ uOutcome.value = "v2"

\* C17: unsupported handler result shape.  When the handler's result,
\* immediate or deferred, is neither an Observable nor an AsyncGenerator,
\* the call's first pull raised the 'Unsupported input type' error, no value
\* was yielded, nothing was subscribed, and the registration state is as it
\* was; and a call made after such a failed call raises that error only if
\* its own result is unsupported too.
C17_UnsupportedShape ==
  /\ (sAwaited = "value" /\ sSettled # <<>>) =>
       /\ sSettled[1] = Outcome("next", "error", NoValue,
                                UnsupportedInput(sResult))
       /\ SDelivered = <<>>
       /\ subscribeCalls = 0
       /\ regError = "" /\ rPhase = "registering" /\ serviceHandlers = <<>>
  /\ (sPrior /\ sAwaited # "value") =>
       \A i \in 1..Len(sSettled) :
         sSettled[i].kind = "error" => sSettled[i].err \notin UnsupportedErrors

\* after a call that failed with the unsupported-input error, a call whose
\* handler returned an Observable delivered a value
C17_Witness ==
  /\ sPrior /\ sAwaited = "observable" /\ SDelivered = <<"v1">>

\* C36: streaming adapters invoke the handler lazily and once.  Calling the
\* adapter does not invoke the handler; the handler has been invoked, once,
\* exactly when the first call the caller made on the pull sequence was a
\* pull, and then with the (request, context) pair the adapter received,
\* nothing taken from the request sequence; when the handler's deferred
\* result failed, the first pull raised that very failure and nothing was
\* subscribed.
AllStreamRequests == Map(ReqOf, sSettled) \o sRequests
C36_LazyHandlerCall ==
  /\ sPc \in {"idle", "suspendedStart"} => sHandlerCalls = 0
  /\ sHandlerCalls =
       (IF AllStreamRequests # <<>> /\ AllStreamRequests[1] = "next"
        THEN 1 ELSE 0)
  /\ sHandlerCalls > 0 =>
       (sHandlerArgs = sArgs /\ sHandlerArgs.request.pulled = 0)
  /\ sAwaited = "rejected" =>
       /\ sSettled # <<>>
       /\ sSettled[1] = Outcome("next", "error", NoValue, sRejection)
       /\ subscribeCalls = 0

\* a bidi call whose handler's promise rejected with a string: the first
\* pull raised the string, the handler was invoked once
C36_Witness ==
  /\ sKind = "duplex_stream" /\ sAwaited = "rejected"
  /\ sRejection = StringCause /\ sHandlerCalls = 1
  /\ sSettled[1].kind = "error" /\ subscribeCalls = 0

\* C35: cleanup propagates through the adapter layers.  Once the caller of
\* a streaming adapter whose handler returned an Observable has received a
\* value and has called return(), the handler's Observable is eventually
\* unsubscribed; and it is never unsubscribed twice.
C35_CleanupPropagates ==
  /\ [](unsubscribeCalls <= 1)
  /\ (SReturnRequested /\ SDelivered # <<>> /\ sInner = "bridge")
       ~> (unsubscribeCalls = 1)

\* ---- registry claims
EntryPattern(i) == JsonParse(messageHandlers[i].key)
Entries == 1..Len(messageHandlers)
InvalidEntries == {i \in Entries : EntryPattern(i).streaming \notin ValidKinds}
NonNullEntries == {i \in Entries : messageHandlers[i].handler # NullHandler}
RouterFunctionRan == rPhase # "registering"
MethodsOf(sv) == serviceHandlers[SubTable(serviceHandlers, sv)].methods

\* C18 as stated: whenever an entry carries a streaming kind outside the
\* four valid ones, building the table raises the configuration error and
\* no table is returned.
C18_InvalidKindRejected ==
  (RouterFunctionRan /\ InvalidEntries # {}) =>
    /\ rPhase = "failed"
    /\ serviceHandlers = <<>>

\* C18 as amended: whenever an entry with a non-null handler carries an
\* invalid kind, building the table raises the configuration error, no table
\* is returned and nothing is attached to the router; an entry with a null
\* handler is skipped whatever its kind; and a table that is returned holds
\* adapters of valid kinds only, none of them for a null handler.
C18_InvalidKindOfNonNullRejected ==
  /\ (RouterFunctionRan /\ InvalidEntries \cap NonNullEntries # {}) =>
       /\ rPhase = "failed"
       /\ \E i \in InvalidEntries \cap NonNullEntries :
            regError = "Invalid streaming type: " \o EntryPattern(i).streaming
       /\ serviceHandlers = <<>>
       /\ routerServices = <<>>
  /\ (RouterFunctionRan /\ InvalidEntries \cap NonNullEntries = {}) =>
       rPhase = "built"
  /\ rPhase = "built" =>
       \A sv \in TableServices(serviceHandlers) :
         \A m \in DOMAIN MethodsOf(sv) :
           /\ MethodsOf(sv)[m].kind \in ValidKinds
           /\ MethodsOf(sv)[m].handler # NullHandler

\* a valid entry was followed by an invalid one and the build failed
C18_Witness ==
  /\ rPhase = "failed" /\ Len(messageHandlers) = 2
  /\ NonNullEntries = {1, 2} /\ InvalidEntries = {2}
  /\ regError = "Invalid streaming type: bogus_stream"

\* C19: dispatch table shape.  When every entry has a non-null handler and a
\* valid kind and the table was built, the table has one sub-table per
\* distinct service name of the entries, and the sub-table of a service
\* holds an adapter under exactly the method names registered for it.
C19_TableShape ==
  (rPhase = "built" /\ InvalidEntries = {} /\ NonNullEntries = Entries) =>
    /\ \A i, j \in 1..Len(serviceHandlers) :
         serviceHandlers[i].service = serviceHandlers[j].service => i = j
    /\ TableServices(serviceHandlers)
         = {EntryPattern(i).service : i \in Entries}
    /\ \A sv \in TableServices(serviceHandlers) :
         /\ DOMAIN MethodsOf(sv)
              = {EntryPattern(i).rpc :
                   i \in {j \in Entries : EntryPattern(j).service = sv}}
         /\ \A m \in DOMAIN MethodsOf(sv) :
              \E i \in Entries :
                /\ EntryPattern(i).service = sv /\ EntryPattern(i).rpc = m
                /\ MethodsOf(sv)[m] = [kind |-> EntryPattern(i).streaming,
                                       handler |-> messageHandlers[i].handler]

\* two methods of one service ended up in one sub-table
C19_Witness ==
  /\ rPhase = "built" /\ Len(messageHandlers) = 2 /\ NonNullEntries = {1, 2}
  /\ Len(serviceHandlers) = 1
  /\ DOMAIN serviceHandlers[1].methods = {"method1", "method2"}

\* C21: null handlers are skipped.  In a table that was built, the
\* services are exactly the services of the entries with a non-null handler
\* and a service's methods are exactly the methods of its entries with a
\* non-null handler; when every entry's handler is null, whatever the kinds,
\* the build succeeds with an empty table.
C21_NullSkipped ==
  /\ rPhase = "built" =>
       /\ TableServices(serviceHandlers)
            = {EntryPattern(i).service : i \in NonNullEntries}
       /\ \A sv \in TableServices(serviceHandlers) :
            DOMAIN MethodsOf(sv)
              = {EntryPattern(i).rpc :
                   i \in {j \in NonNullEntries : EntryPattern(j).service = sv}}
  /\ (RouterFunctionRan /\ NonNullEntries = {}) =>
       (rPhase = "built" /\ serviceHandlers = <<>>)

\* a null handler of an invalid kind, alone in its service, next to a
\* non-null handler of another service: the table holds the latter only
C21_Witness ==
  /\ rPhase = "built" /\ Len(messageHandlers) = 2
  /\ messageHandlers[1].handler = NullHandler
  /\ EntryPattern(1).streaming = "bogus_stream"
  /\ messageHandlers[2].handler # NullHandler
  /\ EntryPattern(1).service # EntryPattern(2).service
  /\ TableServices(serviceHandlers) = {EntryPattern(2).service}

\* C26: the handler table is read-only after it is built.  The step that
\* builds the table and attaches it to the router leaves in it exactly what
\* createServiceHandlers returned, and no later step, of any adapter call
\* whatever its shape and outcome, changes the table.
C26_TableReadOnly ==
  [][/\ (rPhase = "registering" /\ rPhase' = "built") =>
          serviceHandlers' = CreateServiceHandlers(messageHandlers).table
     /\ rPhase = "built" =>
          (serviceHandlers' = serviceHandlers /\ rPhase' = "built")]_vars

\* a streaming call through the attached table's adapter was abandoned
\* after its first value
C26_Witness ==
  /\ rPhase = "built" /\ Len(serviceHandlers) = 1
  /\ sKind \in TableKinds /\ sPc = "completed"
  /\ Len(sSettled) = 2 /\ sSettled[1].kind = "value"
  /\ sSettled[2].req = "return" /\ unsubscribeCalls = 1

AttachmentsOf(sv) ==
  {i \in 1..Len(routerServices) : routerServices[i].impl.service = sv}

\* C20: registry binding.  After the router function ran without error,
\* every service of the table whose name is in the descriptor registry was
\* attached once, with its own sub-table and under the descriptor stored for
\* its name, and a service whose name is absent was not attached; nothing
\* else was attached.
C20_RegistryBinding ==
  rPhase = "built" =>
    /\ \A sv \in TableServices(serviceHandlers) :
         /\ Cardinality(AttachmentsOf(sv))
              = IF sv \in DOMAIN metadataStore THEN 1 ELSE 0
         /\ \A i \in AttachmentsOf(sv) :
              /\ routerServices[i].desc = metadataStore[sv]
              /\ routerServices[i].impl.methods = MethodsOf(sv)
    /\ Len(routerServices)
         = Cardinality(TableServices(serviceHandlers) \cap DOMAIN metadataStore)

\* the first service of the table is absent from the registry, the second
\* one was attached all the same
C20_Witness ==
  /\ rPhase = "built" /\ Len(serviceHandlers) = 2
  /\ serviceHandlers[1].service \notin DOMAIN metadataStore
  /\ serviceHandlers[2].service \in DOMAIN metadataStore
  /\ Len(routerServices) = 1
  /\ routerServices[1].impl = serviceHandlers[2]

\* ---- claims about every kind of call
\* in a sequence of outcomes, everything after a failure or an exhaustion
\* is an exhaustion
TerminalThenDone(st) ==
  \A i \in 1..Len(st) :
    st[i].kind \in {"error", "done"} =>
      \A j \in (i + 1)..Len(st) : st[j].kind = "done"

\* C22: single terminal outcome per call.  The promise of a unary adapter
\* settles at most once; in the outcomes of the pulls on a streaming
\* adapter, and on a bridge, at most one is a failure, and after a failure
\* or an exhaustion no pull receives a value: every later pull signals
\* exhaustion.
C22_SingleTerminal ==
  /\ uSettles <= 1
  /\ uSettles = 0 <=> uOutcome.kind = "pending"
  /\ TerminalThenDone(sSettled)
  /\ TerminalThenDone(settled)

\* a streaming call delivered a value, then the failure, and the pull after
\* the failure signalled exhaustion
C22_Witness ==
  /\ Len(sSettled) = 3 /\ sSettled[1].kind = "value"
  /\ sSettled[2].kind = "error" /\ sSettled[3].kind = "done"
  /\ sSettled[3].req = "next"

\* C38: registration round trip.  Once the router function ran over the
\* handlers that addHandler stored, building the table did not fail, and for
\* every pattern object with a valid kind that was added the table has an
\* adapter at [service][rpc].
C38_RoundTrip ==
  RouterFunctionRan =>
    /\ rPhase = "built"
    /\ \A i \in 1..Len(added) :
         (/\ added[i].pattern.type = "object"
          /\ added[i].pattern.val.streaming \in ValidKinds) =>
           /\ added[i].pattern.val.service \in TableServices(serviceHandlers)
           /\ added[i].pattern.val.rpc
                \in DOMAIN MethodsOf(added[i].pattern.val.service)

\* C39: colliding descriptors.  When the table was built, the adapter kept
\* for a method is the one built from the last entry, in insertion order,
\* that names its service and method with a handler: an earlier entry for
\* the same service and method, whatever its kind, is replaced, and no error
\* was raised.
LastEntryFor(sv, rpc) ==
  CHOOSE i \in NonNullEntries :
    /\ EntryPattern(i).service = sv /\ EntryPattern(i).rpc = rpc
    /\ \A j \in NonNullEntries :
         (EntryPattern(j).service = sv /\ EntryPattern(j).rpc = rpc) => j <= i
C39_LastEntryWins ==
  (RouterFunctionRan /\ InvalidEntries \cap NonNullEntries = {}) =>
    /\ rPhase = "built" /\ regError = ""
    /\ \A i \in NonNullEntries :
         LET p == EntryPattern(i) IN
         MethodsOf(p.service)[p.rpc] =
           [kind |-> EntryPattern(LastEntryFor(p.service, p.rpc)).streaming,
            handler |-> messageHandlers[LastEntryFor(p.service, p.rpc)].handler]

\* two entries for ServiceA.method1, unary then server streaming: the table
\* holds the server streaming adapter
C39_Witness ==
  /\ rPhase = "built" /\ Len(messageHandlers) = 2
  /\ NonNullEntries = {1, 2}
  /\ EntryPattern(1) = [service |-> "ServiceA", rpc |-> "method1",
                        streaming |-> "no_stream"]
  /\ EntryPattern(2) = [service |-> "ServiceA", rpc |-> "method1",
                        streaming |-> "rx_stream"]
  /\ MethodsOf("ServiceA")["method1"].kind = "rx_stream"

\* ---- claims about listen and close
\* C31: listen reports its outcome through the callback.  No listen() call
\* invokes its callback twice; a call that invoked it passed no error
\* exactly when it had started a server; and every listen() call made
\* eventually has invoked its callback exactly once.
C31_CallbackOnce ==
  /\ [](\A k \in 1..Len(listens) :
         /\ Len(listens[k].callbacks) <= 1
         /\ listens[k].callbacks # <<>> =>
              (listens[k].callbacks[1] = "ok" <=> listens[k].target # 0))
  /\ \A k \in 1..MaxListens :
       (Len(listens) >= k)
         ~> (Len(listens) >= k /\ Len(listens[k].callbacks) = 1)

\* C32: strategy close lifecycle.  unwrap() returns null while no listen()
\* was made; a listen() that created a server leaves unwrap() returning that
\* server; a close() that settles, resolved or rejected, leaves unwrap()
\* returning null; a close() made while #server is null resolves and changes
\* no server.
C32_CloseLifecycle ==
  /\ [](listens = <<>> => server = 0)
  /\ [][/\ \/ Len(listens') = Len(listens)
            \/ listens'[Len(listens')].target = 0
            \/ server' = listens'[Len(listens')].target
         /\ \A c \in 1..Len(closes) :
              \/ closes[c].pc \notin {"awaitResolved", "awaitClose"}
              \/ closes'[c].pc \notin {"resolved", "rejected"}
              \/ /\ server' = 0
                 /\ \/ closes[c].target # 0
                    \/ instances' = instances /\ closes'[c].pc = "resolved"
        ]_vars

\* C40: no server outlives close.  When the call made last on the strategy
\* is a close() and every close() made has settled, no server the strategy
\* created is accepting connections.
C40_NoServerOutlivesClose ==
  (/\ lastOp = "close"
   /\ \A c \in 1..Len(closes) : closes[c].pc \in {"resolved", "rejected"})
  => \A i \in 1..Len(instances) : ~Running(instances[i].net)

\* ---- claims about addHandler
\* the key the claim names for one recorded call: the pattern itself when
\* it is a string, otherwise its JSON serialization
KeyOfCall(a) ==
  IF a.pattern.type = "string" THEN <<a.pattern.val>>
  ELSE <<"service", a.pattern.val.service, "rpc", a.pattern.val.rpc,
         "streaming", a.pattern.val.streaming>>
KeysAdded == {KeyOfCall(added[i]) : i \in 1..Len(added)}
LastCallOf(k) ==
  CHOOSE i \in 1..Len(added) :
    /\ KeyOfCall(added[i]) = k
    /\ \A j \in (i + 1)..Len(added) : KeyOfCall(added[j]) # k

\* C30: addHandler registry.  After any sequence of addHandler calls the
\* map holds exactly the keys that were added, each once, every key mapped
\* to the handler of the last call made under it; the map is empty before
\* the first call and its size is the number of distinct keys added.
C30_HandlersMap ==
  /\ Len(messageHandlers) = Cardinality(KeysAdded)
  /\ {messageHandlers[m].key : m \in 1..Len(messageHandlers)} = KeysAdded
  /\ \A m \in 1..Len(messageHandlers) :
       messageHandlers[m].handler =
         added[LastCallOf(messageHandlers[m].key)].callback

\* handler1 then handler2 were added under the string key, and a handler
\* under an object pattern: two keys, the string key holding handler2
C30_Witness ==
  /\ Len(added) = 3 /\ Len(messageHandlers) = 2
  /\ added[1].pattern = PatternString("test-pattern")
  /\ added[1].callback = "handler1"
  /\ added[2].pattern.type = "object"
  /\ added[3].pattern = PatternString("test-pattern")
  /\ messageHandlers[1] = [key |-> <<"test-pattern">>, handler |-> "handler2"]

\* ---- claims about transformToObservable
\* C27: normalizer, deferred value.  For a Promise input, every subscriber
\* of the returned stream has received nothing while the promise is
\* pending; what it has received is nothing, or the settled value once
\* followed by the completion when the promise fulfilled, or the rejection
\* cause as an error and no value when it rejected; and once the reaction
\* to the settlement ran for a subscriber that did not unsubscribe, it has
\* received them.
C27_DeferredValue ==
  nInput.shape = "promise" =>
    /\ nOutput.kind = "fromPromise"
    /\ \A i \in 1..Len(nSubs) :
         LET sub == nSubs[i] IN
         /\ nPromise.state = "pending" => sub.got = <<>>
         /\ sub.got # <<>> =>
              sub.got = IF nPromise.state = "fulfilled"
                        THEN <<Ev("next", nPromise.v, Null),
                               Ev("complete", NoValue, Null)>>
                        ELSE <<Ev("error", NoValue, nPromise.c)>>
         /\ (nPromise.state # "pending" /\ ~sub.reaction
              /\ sub.state # "cancelled") => sub.got # <<>>

\* two subscribers of the stream made from a promise that fulfilled with v1
\* each received v1 and the completion
C27_Witness ==
  /\ nInput.shape = "promise" /\ nPromise.state = "fulfilled"
  /\ nPromise.v = "v1" /\ Len(nSubs) = 2
  /\ \A i \in 1..2 : Len(nSubs[i].got) = 2 /\ nSubs[i].got[1].value = "v1"

\* C28: normalizer, stream pass-through.  For an Observable input the
\* returned stream is the input itself, the normalizer subscribed to
\* nothing, and every subscriber received exactly the events the input's
\* producer pushed to it, in order.
C28_PassThrough ==
  nInput.shape = "observable" =>
    /\ nOutput = [id |-> nInput.v, kind |-> "passthrough"]
    /\ nInputSubs = 0
    /\ \A i \in 1..Len(nSubs) : nSubs[i].got = nPushed[i]

\* a subscriber of the passed-through stream received two values and the
\* completion
C28_Witness ==
  /\ nInput.shape = "observable" /\ nOutput.id = "obsIn" /\ Len(nSubs) = 1
  /\ Len(nSubs[1].got) = 3 /\ nSubs[1].got[1].ev = "next"
  /\ nSubs[1].got[2].ev = "next" /\ nSubs[1].got[3].ev = "complete"

\* C29: normalizer, immediate value.  For a plain input value v, every
\* subscriber of the returned stream has received, by the time subscribe()
\* returned, exactly v once and then the completion, and no error.
C29_ImmediateValue ==
  nInput.shape = "value" =>
    /\ nOutput = [id |-> "new", kind |-> "fromValue"]
    /\ \A i \in 1..Len(nSubs) :
         /\ nSubs[i].got = <<Ev("next", nInput.v, Null),
                             Ev("complete", NoValue, Null)>>
         /\ nSubs[i].state = "stopped"

\* two subscribers of the stream made from the value undefined
C29_Witness ==
  /\ nInput = [shape |-> "value", v |-> Undefined] /\ Len(nSubs) = 2
  /\ nSubs[2].got[1] = Ev("next", Undefined, Null)

\* ---- claims about the bridge's locals
\* the termination state the bridge's loop reads: error !== null, completed
Termination(e, c) ==
  IF c /\ ErrorCheck(e) THEN "both"
  ELSE IF c THEN "Completed"
  ELSE IF ErrorCheck(e) THEN "Errored"
  ELSE "Active"

\* C24: termination signal.  In every step the termination state stays as
\* it is or moves from Active to Completed or to Errored (a terminal state
\* and its cause never change, Completed and Errored never hold together),
\* and once the source received its terminal event or was unsubscribed a
\* pushed value does not enter the emission queue: no step lengthens the
\* queue or the sequence of accepted values.
C24_TerminationSignal ==
  [][/\ Termination(error, completed) # "Active" =>
          (error' = error /\ completed' = completed)
     /\ Termination(error', completed') # "both"
     /\ src \in {"stopped", "cancelled"} =>
          (/\ Len(queue') <= Len(queue) /\ emitted' = emitted
           /\ src' = src /\ term' = term)]_vars

\* a value was pushed after the completion while an accepted value was
\* still queued
C24_Witness ==
  /\ late > 0 /\ Termination(error, completed) = "Completed"
  /\ queue # <<>> /\ pc = "yielding"

\* C25: wake handle discipline.  The resolve slot holds a handle only while
\* the loop is suspended at its await, a handle is fired only while it is in
\* the slot, and a handle that is in the slot and was not fired yet was
\* installed over an empty queue and waits for a source that is still
\* active.
C25_WakeHandle ==
  /\ resolve => pc = "awaiting"
  /\ woken => resolve
  /\ (resolve /\ ~woken) => (queue = <<>> /\ src = "active")

\* C34: lazy subscription and subscribe/cancel balance.  The bridge has
\* subscribed exactly when the first call the consumer made was a pull (not
\* at creation, and not when the sequence was abandoned first); without a
\* subscribe there is no cancel; cancels never exceed subscribes, and
\* neither exceeds one.
AllRequests == Map(ReqOf, settled) \o requests
C34_LazyBalance ==
  /\ subscribeCalls =
       (IF AllRequests # <<>> /\ AllRequests[1] = "next" THEN 1 ELSE 0)
  /\ unsubscribeCalls <= subscribeCalls
  /\ subscribeCalls <= 1
  /\ pc = "suspendedStart" => (subscribeCalls = 0 /\ src = "idle")

\* a sequence abandoned before any pull, then pulled: nothing subscribed,
\* nothing cancelled
C34_Witness ==
  /\ Len(settled) >= 2 /\ settled[1].req = "return" /\ settled[2].req = "next"
  /\ subscribeCalls = 0 /\ unsubscribeCalls = 0 /\ pc = "completed"

\* C33: no lost wake-up.  The pull loop is never suspended on a wake handle
\* that nothing has fired while the queue is non-empty or the source has
\* completed or errored; and once the source has terminated, every pull the
\* consumer has made gets settled.
C33_NoLostWakeup ==
  /\ []((pc = "awaiting" /\ ~woken) => (queue = <<>> /\ term = "none"))
  /\ (term # "none") ~> (Len(settled) = calls)

\* ---- claims about two interleaved calls
IsNextEvent(ev) == ev.ev = "next"
PushedValues(c) == Map(ValueOf, SelectSeq(pushed[c], IsNextEvent))
PushedEnd(c) ==
  IF pushed[c] # <<>> /\ pushed[c][Len(pushed[c])].ev # "next"
  THEN pushed[c][Len(pushed[c])].ev ELSE "none"
ReturnRequestedIn(c) ==
  "return" \in Range(Locals(c).requests)
               \cup Range(Map(ReqOf, Locals(c).settled))

\* C23: call isolation.  For each of two interleaved calls: the values its
\* bridge accepted, queued and yielded are the values its own source
\* pushed, its termination state is the terminal event of its own source,
\* a failure it raises carries a cause of its own source, its loop is woken
\* only after an event of its own source, and its subscription is cancelled
\* only when it was abandoned itself.
C23_CallIsolation ==
  \A c \in CallIds :
    LET L == Locals(c) IN
    /\ L.emitted = PushedValues(c)
    /\ \A i \in 1..Len(L.queue) : L.queue[i] \in PairValues(c)
    /\ \A i \in 1..Len(L.settled) :
         /\ L.settled[i].kind = "value" => L.settled[i].value \in PairValues(c)
         /\ L.settled[i].kind = "error" => L.settled[i].err \in PairCauses(c)
    /\ L.term = PushedEnd(c)
    /\ L.completed <=> PushedEnd(c) = "complete"
    /\ L.error # Null <=> PushedEnd(c) = "error"
    /\ L.woken => pushed[c] # <<>>
    /\ L.src = "cancelled" => ReturnRequestedIn(c)
    /\ L.subscribeCalls <= 1 /\ L.unsubscribeCalls <= L.subscribeCalls

\* call A received its value and was abandoned, its subscription is
\* cancelled; call B, started meanwhile, is still subscribed and waiting
C23_Witness ==
  /\ src = "cancelled" /\ YieldedValues = <<"value of A">>
  /\ peer.src = "active" /\ peer.pc = "awaiting" /\ peer.queue = <<>>
  /\ peer.unsubscribeCalls = 0

TypeOK ==
  /\ pc \in {"suspendedStart", "yielding", "suspendedYield", "awaiting",
             "returning", "completed"}
  /\ Len(queue) <= MaxEmit + MaxPulls + MaxStreamEmit
  /\ \A i \in 1..Len(queue) :
       queue[i] \in JsValues \cup {Echo(r) : r \in RequestItems}
                         \cup UNION {PairValues(c) : c \in CallIds}
  /\ peer.pc \in {"suspendedStart", "yielding", "suspendedYield", "awaiting",
                  "returning", "completed"}
  /\ \A c \in CallIds : Len(pushed[c]) <= MaxPairEmit + 1
  /\ late \in 0..MaxLate
  /\ nPc \in {"idle", "called"} /\ Len(nSubs) <= MaxSubs
  /\ Len(nPushed) = Len(nSubs) /\ nInputSubs = 0
  /\ src \in {"idle", "active", "stopped", "cancelled"}
  /\ sPc \in {"idle", "suspendedStart", "awaitResult", "awaitInner", "relay",
              "suspendedYield", "returning", "completed"}
  /\ sSeen <= Len(settled) /\ Len(sSettled) <= sCalls /\ sCalls <= MaxStreamReq
  /\ sReqIdx <= Len(sReqSeq) /\ sCallNo <= MaxStreamCalls
====
